---- MODULE Spec2Model ----
(***************************************************************************)
(* OCI compartment and policy browser.                                     *)
(*                                                                         *)
(*   backend/index.js                 ConfigStore (listOciProfiles,        *)
(*                                    loadOciProfile), the three API       *)
(*                                    handlers and getInstanceTenancyOcid  *)
(*   components/CompartmentBrowser    the navigation controller            *)
(*   App.jsx                          the lifted session state and the tab *)
(*                                                                         *)
(* Text is modelled as a sequence of one-character strings, so that the    *)
(* parsing done by the code (regular expressions, split, trim, indexOf)    *)
(* is computed and not assumed.  The JavaScript values '' and undefined    *)
(* of a query parameter are both the empty sequence: the handlers only     *)
(* test them for truthiness and for equality with a non-empty name.        *)
(***************************************************************************)
EXTENDS Integers, Sequences, FiniteSets, Bags, TLC

VARIABLES
    configFile,     \* ~/.oci/config: [readable, content]
    lastCall,       \* the last ConfigStore call and what it returned
    mode,           \* INSTANCE_PRINCIPAL_MODE, fixed at process start
    cache,          \* _instanceMetaTenancyOcid (<<>> is null)
    requests,       \* the server's requests: id -> record
    metaRequests,   \* number of http.get calls to the metadata endpoint
    client,         \* App + CompartmentBrowser state and the fetches in flight
    hist            \* history of the navigation events (observation only)

vars == <<configFile, lastCall, mode, cache, requests, metaRequests, client, hist>>

-----------------------------------------------------------------------------
(* Characters and text                                                     *)

NL == "\n"
CR == "\r"

\* JavaScript line terminators that the m flag of a RegExp honours for ^.
LineTerminators == {NL, CR}

\* String.prototype.trim strips these from both ends.
WhiteSpace == {" ", "\t", NL, CR}

RECURSIVE TrimStart(_)
TrimStart(s) ==
    IF s = <<>> THEN <<>>
    ELSE IF Head(s) \in WhiteSpace THEN TrimStart(Tail(s)) ELSE s

RECURSIVE TrimEnd(_)
TrimEnd(s) ==
    IF s = <<>> THEN <<>>
    ELSE IF s[Len(s)] \in WhiteSpace THEN TrimEnd(SubSeq(s, 1, Len(s) - 1)) ELSE s

Trim(s) == TrimEnd(TrimStart(s))

\* String.prototype.indexOf(ch) from position `from`, 1-based; 0 when absent.
IndexFrom(s, ch, from) ==
    LET hits == {i \in from..Len(s) : s[i] = ch}
    IN  IF hits = {} THEN 0 ELSE CHOOSE i \in hits : \A j \in hits : i <= j

IndexOf(s, ch) == IndexFrom(s, ch, 1)

\* content.split(/\r?\n/)
RECURSIVE SplitLines(_)
SplitLines(content) ==
    LET n == IndexOf(content, NL)
    IN  IF n = 0 THEN <<content>>
        ELSE LET raw  == SubSeq(content, 1, n - 1)
                 line == IF raw # <<>> /\ raw[Len(raw)] = CR
                         THEN SubSeq(raw, 1, Len(raw) - 1) ELSE raw
             IN  <<line>> \o SplitLines(SubSeq(content, n + 1, Len(content)))

\* Array.prototype.join(NL): the inverse used to build the file's text.
RECURSIVE JoinLines(_)
JoinLines(lines) ==
    IF lines = <<>> THEN <<>>
    ELSE IF Len(lines) = 1 THEN lines[1]
    ELSE lines[1] \o <<NL>> \o JoinLines(Tail(lines))

-----------------------------------------------------------------------------
(* ConfigStore                                                             *)

\* line.match(/^\[([^\]]+)\]/) on one line (no m flag): the captured name,
\* or <<>> when the line is no header (a captured name is never empty).
HeaderMatch(line) ==
    IF line = <<>> \/ line[1] # "[" THEN <<>>
    ELSE LET j == IndexFrom(line, "]", 2)
         IN  IF j < 3 THEN <<>> ELSE SubSeq(line, 2, j - 1)

\* profileRegex.exec(content) in a loop, lastIndex = i - 1: /^\[([^\]]+)\]/gm.
\* The negated class [^\]] matches line terminators too.
RECURSIVE ExecProfileRegex(_, _)
ExecProfileRegex(content, i) ==
    IF i > Len(content) THEN <<>>
    ELSE IF content[i] = "[" /\ (i = 1 \/ content[i - 1] \in LineTerminators)
         THEN LET j == IndexFrom(content, "]", i + 1)
              IN  IF j = 0 THEN <<>>
                  ELSE IF j = i + 1 THEN ExecProfileRegex(content, i + 1)
                  ELSE <<SubSeq(content, i + 1, j - 1)>>
                           \o ExecProfileRegex(content, j + 1)
         ELSE ExecProfileRegex(content, i + 1)

\* listOciProfiles without its try/catch around the read.
listOciProfiles_NoCatch(file) == ExecProfileRegex(file.content, 1)

listOciProfiles(file) ==
    IF ~file.readable THEN <<>>              \* readFileSync throws: catch
    ELSE ExecProfileRegex(file.content, 1)

NullProfile == [isNull |-> TRUE, fields |-> <<>>]

\* LoadLine with a header of another section not closing the section.
LoadLine_KeepsSection(st, line, profileName) ==
    LET h == HeaderMatch(line)
    IN  IF h # <<>> THEN [st EXCEPT !.inProfile = (@ \/ h = profileName)]
        ELSE IF st.inProfile /\ Trim(line) # <<>> /\ Head(Trim(line)) # "#"
        THEN LET idx == IndexOf(line, "=")
             IN  IF idx # 0
                 THEN LET key == Trim(SubSeq(line, 1, idx - 1))
                          val == Trim(SubSeq(line, idx + 1, Len(line)))
                      IN  [st EXCEPT !.data =
                              [k \in DOMAIN st.data \cup {key} |->
                                  IF k = key THEN val ELSE st.data[k]]]
                 ELSE st
        ELSE st

\* One iteration of the for loop of loadOciProfile over st = [inProfile, data].
LoadLine(st, line, profileName) ==
    LET h == HeaderMatch(line)
    IN  IF h # <<>> THEN [st EXCEPT !.inProfile = (h = profileName)]
        ELSE IF st.inProfile /\ Trim(line) # <<>> /\ Head(Trim(line)) # "#"
        THEN LET idx == IndexOf(line, "=")
             IN  IF idx # 0
                 THEN LET key == Trim(SubSeq(line, 1, idx - 1))
                          val == Trim(SubSeq(line, idx + 1, Len(line)))
                      IN  [st EXCEPT !.data =
                              [k \in DOMAIN st.data \cup {key} |->
                                  IF k = key THEN val ELSE st.data[k]]]
                 ELSE st
        ELSE st

RECURSIVE LoadLines(_, _, _)
LoadLines(st, lines, profileName) ==
    IF lines = <<>> THEN st
    ELSE LoadLines(LoadLine(st, Head(lines), profileName), Tail(lines), profileName)

\* loadOciProfile without the test for an empty profileData.
loadOciProfile_EmptyFound(profileName, file) ==
    IF ~file.readable THEN NullProfile
    ELSE [isNull |-> FALSE,
          fields |-> LoadLines([inProfile |-> FALSE, data |-> <<>>],
                               SplitLines(file.content), profileName).data]

loadOciProfile(profileName, file) ==
    IF ~file.readable THEN NullProfile       \* readFileSync throws: catch
    ELSE LET profileData ==
                 LoadLines([inProfile |-> FALSE, data |-> <<>>],
                           SplitLines(file.content), profileName).data
         IN  IF DOMAIN profileData # {}
             THEN [isNull |-> FALSE, fields |-> profileData]
             ELSE NullProfile

-----------------------------------------------------------------------------
(* Process-start constants of backend/index.js                             *)

INSTANCE_PRINCIPAL_PROFILE_NAME ==
    <<"i","n","s","t","a","n","c","e","-","p","r","i","n","c","i","p","a","l">>

\* GET /api/profiles listing the file in both modes.
ProfilesHandler_AlwaysFile(ipMode, file) ==
    [status |-> 200, profiles |-> listOciProfiles(file)]

\* GET /api/profiles
ProfilesHandler(ipMode, file) ==
    IF ipMode
    THEN [status |-> 200, profiles |-> <<INSTANCE_PRINCIPAL_PROFILE_NAME>>]
    ELSE [status |-> 200, profiles |-> listOciProfiles(file)]

-----------------------------------------------------------------------------
(* The upstream identity service and the instance metadata endpoint: the   *)
(* environment of the server.  A small account: tenancy T with the         *)
(* compartments Y (which holds Z) and W, and a second tenancy U that holds *)
(* no compartment.                                                         *)

T == <<"T">>
U == <<"U">>
Y == <<"Y">>
W == <<"W">>
Z == <<"Z">>

Compartment(id, name, parent) == [id |-> id, name |-> name, compartmentId |-> parent]

Groupings == {T, U, Y, W, Z}

\* IdentityClient.listCompartments({compartmentId}).items when the call succeeds.
UpstreamCompartments(id) ==
    IF id = T THEN <<Compartment(Y, "Sales", T), Compartment(W, "Ops", T)>>
    ELSE IF id = Y THEN <<Compartment(Z, "Leaf", Y)>>
    ELSE <<>>

Policy(id, parent) == [id |-> id, compartmentId |-> parent]

\* IdentityClient.listPolicies({compartmentId}).items when the call succeeds.
UpstreamPolicies(id) ==
    IF id = T THEN <<Policy("pT", T)>>
    ELSE IF id = Y THEN <<Policy("pY1", Y), Policy("pY2", Y)>>
    ELSE IF id = Z THEN <<Policy("pZ", Z)>>
    ELSE IF id = U THEN <<Policy("pU", U)>>
    ELSE <<>>

\* The compartmentId field of http://169.254.169.254/opc/v1/instance/.
MetadataCompartmentId == T

\* How a metadata request ends: a body with the field, a body without it or
\* one that is no JSON, or the request's "error" event.
MetaOutcomes == {"ok", "malformed", "error"}

\* The configuration file of the server and end-to-end checks.
DevConfig ==
    JoinLines(<< <<"[","d","e","v","]">>,
                 <<"t","e","n","a","n","c","y","=","T">>,
                 <<"[","o","p","s","]">>,
                 <<"t","e","n","a","n","c","y","=","U">> >>)

Dev == <<"d","e","v">>
Ops == <<"o","p","s">>
TenancyKey == <<"t","e","n","a","n","c","y">>

-----------------------------------------------------------------------------
(* RootResolver: getInstanceTenancyOcid                                    *)

\* getInstanceTenancyOcid without the test of _instanceMetaTenancyOcid.
getInstanceTenancyOcid_NoCache(c) == [httpGet |-> TRUE, value |-> <<>>]

\* The promise executor: resolve from the cache, or issue http.get.
getInstanceTenancyOcid(c) ==
    IF c # <<>>
    THEN [httpGet |-> FALSE, value |-> c]
    ELSE [httpGet |-> TRUE, value |-> <<>>]

\* The end of a metadata request clearing the cache when the request failed.
MetaEnd_ClearsOnFailure(c, outcome) ==
    IF outcome = "ok"
    THEN [cache |-> MetadataCompartmentId, value |-> MetadataCompartmentId]
    ELSE [cache |-> <<>>, value |-> <<>>]

\* The end of a metadata request resolving with the cached value when the
\* request failed.
MetaEnd_ReturnsCached(c, outcome) ==
    IF outcome = "ok"
    THEN [cache |-> MetadataCompartmentId, value |-> MetadataCompartmentId]
    ELSE [cache |-> c, value |-> c]

\* The end of a metadata request forgetting the cached value when the body
\* is malformed.
MetaEnd_ForgetsOnMalformed(c, outcome) ==
    IF outcome = "ok"
    THEN [cache |-> MetadataCompartmentId, value |-> MetadataCompartmentId]
    ELSE IF outcome = "malformed" THEN [cache |-> <<>>, value |-> <<>>]
    ELSE [cache |-> c, value |-> <<>>]

\* resp.on("end") and .on("error"): the new cache and the resolved value.
MetaEnd(c, outcome) ==
    IF outcome = "ok"
    THEN [cache |-> MetadataCompartmentId, value |-> MetadataCompartmentId]
    ELSE [cache |-> c, value |-> <<>>]

-----------------------------------------------------------------------------
(* IdentityProxy: GET /api/compartments and GET /api/policies.  A request  *)
(* is a record; pc is where its handler waits: "meta" (await              *)
(* getInstanceTenancyOcid), "upstream" (await identityClient.list...) or   *)
(* "done" (answered).                                                      *)

NewRequest(endpoint, profile, param) ==
    [endpoint |-> endpoint, profile |-> profile, param |-> param,
     pc |-> "new", status |-> 0, error |-> "", items |-> <<>>,
     sent |-> <<>>, metaCalls |-> 0, upstreamCalls |-> 0, answers |-> 0,
     cacheAtStart |-> <<>>, tenancyId |-> <<>>]

Respond(req, status, error, items) ==
    [req EXCEPT !.pc = "done", !.status = status, !.error = error,
                !.items = items, !.answers = @ + 1]

\* identityClient.listCompartments / listPolicies is called with `id`.
CallUpstream(req, id) ==
    [req EXCEPT !.pc = "upstream", !.sent = id, !.upstreamCalls = @ + 1]

FailMessage(endpoint) ==
    IF endpoint = "compartments" THEN "Failed to list compartments"
    ELSE "Failed to list policies"

\* The continuation that lists the tenancy whatever the parent parameter is.
AfterTenancy_IgnoresParent(req, tenancyId) ==
    IF tenancyId = <<>>
    THEN Respond(req, 500, "Unable to get tenancy OCID from instance metadata", <<>>)
    ELSE CallUpstream([req EXCEPT !.tenancyId = tenancyId], tenancyId)

\* The continuation of the compartments handler after await
\* getInstanceTenancyOcid() gave tenancyId.
AfterTenancy(req, tenancyId) ==
    IF tenancyId = <<>>
    THEN Respond(req, 500, "Unable to get tenancy OCID from instance metadata", <<>>)
    ELSE CallUpstream([req EXCEPT !.tenancyId = tenancyId],
                      IF req.param # <<>> THEN req.param ELSE tenancyId)

\* The compartments handler sending the parent parameter as it came, without
\* the tenancy of the profile as its default.
CompartmentsHandler_NoTenancyDefault(ipMode, file, c, req, providerOk) ==
    IF ipMode
    THEN IF req.profile # INSTANCE_PRINCIPAL_PROFILE_NAME
         THEN Respond(req, 400, "Profile must be 'instance-principal' in this mode", <<>>)
         ELSE IF ~providerOk
         THEN Respond(req, 500, "provider", <<>>)
         ELSE LET g == getInstanceTenancyOcid(c)
                  r == [req EXCEPT !.cacheAtStart = c]
              IN  IF g.httpGet
                  THEN [r EXCEPT !.pc = "meta", !.metaCalls = @ + 1]
                  ELSE AfterTenancy(r, g.value)
    ELSE IF req.profile = <<>>
         THEN Respond(req, 400, "Missing profile", <<>>)
         ELSE IF loadOciProfile(req.profile, file).isNull
         THEN Respond(req, 404, "Profile not found", <<>>)
         ELSE IF ~providerOk
         THEN Respond(req, 500, "provider", <<>>)
         ELSE CallUpstream(req, req.param)

\* The compartments handler asking for the tenancy only when no parent is
\* given.
CompartmentsHandler_SkipsRootForParent(ipMode, file, c, req, providerOk) ==
    IF ipMode
    THEN IF req.profile # INSTANCE_PRINCIPAL_PROFILE_NAME
         THEN Respond(req, 400, "Profile must be 'instance-principal' in this mode", <<>>)
         ELSE IF ~providerOk
         THEN Respond(req, 500, "provider", <<>>)
         ELSE IF req.param # <<>>
         THEN CallUpstream(req, req.param)
         ELSE LET g == getInstanceTenancyOcid(c)
                  r == [req EXCEPT !.cacheAtStart = c]
              IN  IF g.httpGet
                  THEN [r EXCEPT !.pc = "meta", !.metaCalls = @ + 1]
                  ELSE AfterTenancy(r, g.value)
    ELSE IF req.profile = <<>>
         THEN Respond(req, 400, "Missing profile", <<>>)
         ELSE LET profileConfig == loadOciProfile(req.profile, file)
              IN  IF profileConfig.isNull
                  THEN Respond(req, 404, "Profile not found", <<>>)
                  ELSE IF ~providerOk
                  THEN Respond(req, 500, "provider", <<>>)
                  ELSE CallUpstream(req,
                          IF req.param # <<>> THEN req.param
                          ELSE IF TenancyKey \in DOMAIN profileConfig.fields
                               THEN profileConfig.fields[TenancyKey]
                               ELSE <<>>)

\* The compartments handler looking the profile up before it tests that the
\* parameter is there.
CompartmentsHandler_NotFoundFirst(ipMode, file, c, req, providerOk) ==
    IF ipMode
    THEN IF req.profile # INSTANCE_PRINCIPAL_PROFILE_NAME
         THEN Respond(req, 400, "Profile must be 'instance-principal' in this mode", <<>>)
         ELSE IF ~providerOk
         THEN Respond(req, 500, "provider", <<>>)
         ELSE LET g == getInstanceTenancyOcid(c)
                  r == [req EXCEPT !.cacheAtStart = c]
              IN  IF g.httpGet
                  THEN [r EXCEPT !.pc = "meta", !.metaCalls = @ + 1]
                  ELSE AfterTenancy(r, g.value)
    ELSE LET profileConfig == loadOciProfile(req.profile, file)
         IN  IF profileConfig.isNull
             THEN Respond(req, 404, "Profile not found", <<>>)
             ELSE IF req.profile = <<>>
             THEN Respond(req, 400, "Missing profile", <<>>)
             ELSE IF ~providerOk
             THEN Respond(req, 500, "provider", <<>>)
             ELSE CallUpstream(req,
                     IF req.param # <<>> THEN req.param
                     ELSE IF TenancyKey \in DOMAIN profileConfig.fields
                          THEN profileConfig.fields[TenancyKey]
                          ELSE <<>>)

\* app.get('/api/compartments') up to its first await.  providerOk: the
\* construction of the authentication provider and client did not throw.
CompartmentsHandler(ipMode, file, c, req, providerOk) ==
    IF ipMode
    THEN IF req.profile # INSTANCE_PRINCIPAL_PROFILE_NAME
         THEN Respond(req, 400, "Profile must be 'instance-principal' in this mode", <<>>)
         ELSE IF ~providerOk
         THEN Respond(req, 500, "provider", <<>>)
         ELSE LET g == getInstanceTenancyOcid(c)
                  r == [req EXCEPT !.cacheAtStart = c]
              IN  IF g.httpGet
                  THEN [r EXCEPT !.pc = "meta", !.metaCalls = @ + 1]
                  ELSE AfterTenancy(r, g.value)
    ELSE IF req.profile = <<>>
         THEN Respond(req, 400, "Missing profile", <<>>)
         ELSE LET profileConfig == loadOciProfile(req.profile, file)
              IN  IF profileConfig.isNull
                  THEN Respond(req, 404, "Profile not found", <<>>)
                  ELSE IF ~providerOk
                  THEN Respond(req, 500, "provider", <<>>)
                  ELSE CallUpstream(req,
                          IF req.param # <<>> THEN req.param
                          ELSE IF TenancyKey \in DOMAIN profileConfig.fields
                               THEN profileConfig.fields[TenancyKey]
                               ELSE <<>>)

\* The policies handler without the instance-principal guard.
PoliciesHandler_NoGuard(ipMode, file, req, providerOk) ==
    IF req.profile = <<>> \/ req.param = <<>>
    THEN Respond(req, 400, "Missing profile or compartmentId", <<>>)
    ELSE IF ~ipMode /\ loadOciProfile(req.profile, file).isNull
    THEN Respond(req, 404, "Profile not found", <<>>)
    ELSE IF ~providerOk
    THEN Respond(req, 500, "provider", <<>>)
    ELSE CallUpstream(req, req.param)

\* The policies handler without the compartmentId test of instance-principal
\* mode.
PoliciesHandler_NoIdCheck(ipMode, file, req, providerOk) ==
    IF ipMode
    THEN IF req.profile # INSTANCE_PRINCIPAL_PROFILE_NAME
         THEN Respond(req, 400, "Profile must be 'instance-principal' in this mode", <<>>)
         ELSE IF ~providerOk
         THEN Respond(req, 500, "provider", <<>>)
         ELSE CallUpstream(req, req.param)
    ELSE IF req.profile = <<>> \/ req.param = <<>>
         THEN Respond(req, 400, "Missing profile or compartmentId", <<>>)
         ELSE IF loadOciProfile(req.profile, file).isNull
         THEN Respond(req, 404, "Profile not found", <<>>)
         ELSE IF ~providerOk
         THEN Respond(req, 500, "provider", <<>>)
         ELSE CallUpstream(req, req.param)

\* app.get('/api/policies') up to its first await.
PoliciesHandler(ipMode, file, req, providerOk) ==
    IF ipMode
    THEN IF req.profile # INSTANCE_PRINCIPAL_PROFILE_NAME
         THEN Respond(req, 400, "Profile must be 'instance-principal' in this mode", <<>>)
         ELSE IF req.param = <<>>
         THEN Respond(req, 400, "Missing compartmentId", <<>>)
         ELSE IF ~providerOk
         THEN Respond(req, 500, "provider", <<>>)
         ELSE CallUpstream(req, req.param)
    ELSE IF req.profile = <<>> \/ req.param = <<>>
         THEN Respond(req, 400, "Missing profile or compartmentId", <<>>)
         ELSE IF loadOciProfile(req.profile, file).isNull
         THEN Respond(req, 404, "Profile not found", <<>>)
         ELSE IF ~providerOk
         THEN Respond(req, 500, "provider", <<>>)
         ELSE CallUpstream(req, req.param)

\* The end of an upstream call answering from the catch block as well after
\* it answered in the try block.
UpstreamEnd_AnswersTwice(req, ok) ==
    IF ok /\ req.sent \in Groupings
    THEN Respond(Respond(req, 200, "",
                         IF req.endpoint = "compartments"
                         THEN UpstreamCompartments(req.sent)
                         ELSE UpstreamPolicies(req.sent)),
                 500, FailMessage(req.endpoint), <<>>)
    ELSE Respond(req, 500, FailMessage(req.endpoint), <<>>)

\* The upstream call of a request ends: res.json(response.items || []) or
\* the catch block.  A call for an id the service does not know fails.
UpstreamEnd(req, ok) ==
    IF ok /\ req.sent \in Groupings
    THEN Respond(req, 200, "",
                 IF req.endpoint = "compartments"
                 THEN UpstreamCompartments(req.sent) ELSE UpstreamPolicies(req.sent))
    ELSE Respond(req, 500, FailMessage(req.endpoint), <<>>)

-----------------------------------------------------------------------------
(* Inputs of the ConfigStore checks: configuration files of up to          *)
(* MaxLines lines, each line one of ConfigLines.                           *)

MaxLines == 3

ConfigLines ==
    { <<"[","a","]">>,
      <<"[","b","]">>,
      <<"k","=","v">>,
      <<" ","x"," ","="," ","1"," ">>,
      <<"k","=","w","=","z">>,
      <<"#","k","=","c">>,
      <<>>,
      <<"[","a">>,
      <<"y","=","2","]">>,
      <<"[","]","=","1">> }

RECURSIVE LinesUpTo(_)
LinesUpTo(n) ==
    IF n = 0 THEN {<<>>}
    ELSE LinesUpTo(n - 1) \cup
         {Append(ls, l) : ls \in {x \in LinesUpTo(n - 1) : Len(x) = n - 1},
                          l \in ConfigLines}

\* An unreadable file may well hold text: readFileSync throws all the same.
ConfigFiles ==
    {[readable |-> r, content |-> JoinLines(ls)] :
        r \in BOOLEAN, ls \in LinesUpTo(MaxLines)}

QueryNames == {<<"a">>, <<"b">>, <<"c">>}

NoCall == [fn |-> "none", arg |-> <<>>, result |-> <<>>]

\* The server and client parts are idle in the ConfigStore specification.
IdleServer ==
    /\ cache = <<>>
    /\ requests = <<>>
    /\ metaRequests = 0

IdleClient ==
    /\ client = <<>>
    /\ hist = <<>>

InitConfig ==
    /\ configFile \in ConfigFiles
    /\ lastCall = NoCall
    /\ mode \in BOOLEAN
    /\ IdleServer
    /\ IdleClient

CallListProfiles ==
    /\ lastCall' = [fn |-> "listOciProfiles", arg |-> <<>>,
                    result |-> listOciProfiles(configFile)]
    /\ UNCHANGED <<configFile, mode, cache, requests, metaRequests, client, hist>>

CallLoadProfile(name) ==
    /\ lastCall' = [fn |-> "loadOciProfile", arg |-> name,
                    result |-> loadOciProfile(name, configFile)]
    /\ UNCHANGED <<configFile, mode, cache, requests, metaRequests, client, hist>>

CallGetProfiles ==
    /\ lastCall' = [fn |-> "GET /api/profiles", arg |-> <<>>,
                    result |-> ProfilesHandler(mode, configFile)]
    /\ UNCHANGED <<configFile, mode, cache, requests, metaRequests, client, hist>>

NextConfig ==
    \/ CallListProfiles
    \/ \E name \in QueryNames : CallLoadProfile(name)
    \/ CallGetProfiles

SpecConfig == InitConfig /\ [][NextConfig]_vars

-----------------------------------------------------------------------------
(* The configuration format as section 4.1 of the specification words it,  *)
(* stated line by line and without the code's loop.                        *)

\* line is a header `[<name>]` naming `name`.
IsHeaderLine(line, name) ==
    /\ Len(line) >= 3
    /\ line[1] = "["
    /\ \E j \in 3..Len(line) :
          /\ line[j] = "]"
          /\ \A i \in 2..(j - 1) : line[i] # "]"
          /\ name = SubSeq(line, 2, j - 1)

IsHeader(line) == \E j \in 3..Len(line) : IsHeaderLine(line, SubSeq(line, 2, j - 1))

\* Line i lies inside a section named `name`.
InSection(lines, i, name) ==
    /\ ~IsHeader(lines[i])
    /\ \E h \in 1..(i - 1) :
          /\ IsHeaderLine(lines[h], name)
          /\ \A m \in (h + 1)..(i - 1) : ~IsHeader(lines[m])

\* A non-blank, non-comment line of the form key=value.
IsFieldLine(line) ==
    /\ \E i \in 1..Len(line) : line[i] \notin WhiteSpace
    /\ LET first == CHOOSE i \in 1..Len(line) :
                        /\ line[i] \notin WhiteSpace
                        /\ \A j \in 1..(i - 1) : line[j] \in WhiteSpace
       IN  line[first] # "#"
    /\ \E i \in 1..Len(line) : line[i] = "="

FirstEq(line) ==
    CHOOSE i \in 1..Len(line) : line[i] = "=" /\ \A j \in 1..(i - 1) : line[j] # "="

KeyOf(line) == Trim(SubSeq(line, 1, FirstEq(line) - 1))
ValOf(line) == Trim(SubSeq(line, FirstEq(line) + 1, Len(line)))

FileLines == SplitLines(configFile.content)

\* The field lines of the sections named `name`.
FieldLinesOf(name) ==
    {i \in 1..Len(FileLines) :
        InSection(FileLines, i, name) /\ IsFieldLine(FileLines[i])}

\* The names of the header lines, in file order.
RECURSIVE HeaderNames(_)
HeaderNames(lines) ==
    IF lines = <<>> THEN <<>>
    ELSE (IF IsHeader(Head(lines))
          THEN <<CHOOSE n \in {SubSeq(Head(lines), 2, j - 1) : j \in 3..Len(Head(lines))} :
                     IsHeaderLine(Head(lines), n)>>
          ELSE <<>>) \o HeaderNames(Tail(lines))

\* C5: listProfiles returns the names of all section headers of the
\* configuration text, in file order.
C5_ListsSectionHeaders ==
    (lastCall.fn = "listOciProfiles" /\ configFile.readable)
        => lastCall.result = HeaderNames(FileLines)

\* C6: loadProfile(name) returns exactly the key/value pairs of the
\* non-blank, non-comment key=value lines inside the sections named name:
\* first '=' splits, both sides trimmed, lines before the first header and
\* lines of other sections contribute nothing (a key written twice keeps the
\* value of its last line; no pair at all is the not-found result).
C6_LoadReturnsSectionFields ==
    (lastCall.fn = "loadOciProfile" /\ configFile.readable) =>
        LET F == FieldLinesOf(lastCall.arg)
            r == lastCall.result.fields
        IN  /\ DOMAIN r = {KeyOf(FileLines[i]) : i \in F}
            /\ \A i \in F :
                  (\A j \in F : j > i => KeyOf(FileLines[j]) # KeyOf(FileLines[i]))
                      => r[KeyOf(FileLines[i])] = ValOf(FileLines[i])

\* A section with a trimmed field and a first-'=' split was loaded while a
\* field line outside that section was left out.
C6_Witness ==
    /\ lastCall.fn = "loadOciProfile"
    /\ configFile.readable
    /\ ~lastCall.result.isNull
    /\ \E i \in 1..Len(FileLines) :
          /\ IsFieldLine(FileLines[i])
          /\ ~InSection(FileLines, i, lastCall.arg)
    /\ \E i \in FieldLinesOf(lastCall.arg) :
          SubSeq(FileLines[i], FirstEq(FileLines[i]) + 1, Len(FileLines[i]))
              # lastCall.result.fields[KeyOf(FileLines[i])]

\* C7: loadProfile(name) is not-found for every content without a section
\* named name, and for a section named name with zero parsed fields.
C7_LoadNotFound ==
    (lastCall.fn = "loadOciProfile" /\ configFile.readable) =>
        /\ (~\E i \in 1..Len(FileLines) : IsHeaderLine(FileLines[i], lastCall.arg))
              => lastCall.result = NullProfile
        /\ FieldLinesOf(lastCall.arg) = {} => lastCall.result = NullProfile

\* The section exists, holds only lines that are no fields, and is not found.
C7_Witness ==
    /\ lastCall.fn = "loadOciProfile"
    /\ configFile.readable
    /\ lastCall.result = NullProfile
    /\ \E i \in 1..(Len(FileLines) - 1) :
          /\ IsHeaderLine(FileLines[i], lastCall.arg)
          /\ ~IsHeader(FileLines[i + 1])
          /\ FileLines[i + 1] # <<>>

\* C8 as claimed: with the file missing or unreadable, listProfiles is empty,
\* GET /api/profiles answers 200 with an empty list, loadProfile is not-found.
C8_UnreadableAsClaimed ==
    ~configFile.readable =>
        /\ lastCall.fn = "listOciProfiles" => lastCall.result = <<>>
        /\ lastCall.fn = "GET /api/profiles" =>
              lastCall.result = [status |-> 200, profiles |-> <<>>]
        /\ lastCall.fn = "loadOciProfile" => lastCall.result = NullProfile

\* C8 amended: the empty 200 answer of GET /api/profiles is that of profile
\* mode; in instance-principal mode the answer is 200 with the sentinel name.
C8_UnreadableFile ==
    ~configFile.readable =>
        /\ lastCall.fn = "listOciProfiles" => lastCall.result = <<>>
        /\ lastCall.fn = "GET /api/profiles" =>
              /\ lastCall.result.status = 200
              /\ ~mode => lastCall.result.profiles = <<>>
              /\ mode => lastCall.result.profiles = <<INSTANCE_PRINCIPAL_PROFILE_NAME>>
        /\ lastCall.fn = "loadOciProfile" => lastCall.result = NullProfile

\* An unreadable file that holds a complete section was asked for it.
C8_Witness ==
    /\ ~configFile.readable
    /\ ~mode
    /\ lastCall.fn \in {"GET /api/profiles", "loadOciProfile"}
    /\ \E i \in 1..(Len(FileLines) - 1) :
          /\ IsHeader(FileLines[i])
          /\ IsFieldLine(FileLines[i + 1]) /\ ~IsHeader(FileLines[i + 1])
          /\ lastCall.fn = "loadOciProfile" => IsHeaderLine(FileLines[i], lastCall.arg)

-----------------------------------------------------------------------------
(* The server: requests arrive, run to their first await, and are resumed  *)
(* by the end of the metadata request and of the upstream call, in any     *)
(* interleaving.                                                           *)

MaxRequests == 3

RequestProfiles == {<<>>, Dev, INSTANCE_PRINCIPAL_PROFILE_NAME}
RequestParams == {<<>>, Y}

ServerConfigs ==
    {[readable |-> r, content |-> DevConfig] : r \in BOOLEAN}

InitServer ==
    /\ configFile \in ServerConfigs
    /\ lastCall = NoCall
    /\ mode \in BOOLEAN
    /\ cache = <<>>
    /\ requests = <<>>
    /\ metaRequests = 0
    /\ IdleClient

Arrive(endpoint, profile, param, providerOk) ==
    /\ Len(requests) < MaxRequests
    /\ LET req == NewRequest(endpoint, profile, param)
           r   == IF endpoint = "compartments"
                  THEN CompartmentsHandler(mode, configFile, cache, req, providerOk)
                  ELSE PoliciesHandler(mode, configFile, req, providerOk)
       IN  /\ requests' = Append(requests, r)
           /\ metaRequests' = metaRequests + r.metaCalls
    /\ UNCHANGED <<configFile, lastCall, mode, cache, client, hist>>

MetaResponse(i, outcome) ==
    /\ requests[i].pc = "meta"
    /\ LET m == MetaEnd(cache, outcome)
       IN  /\ cache' = m.cache
           /\ requests' = [requests EXCEPT ![i] = AfterTenancy(@, m.value)]
    /\ UNCHANGED <<configFile, lastCall, mode, metaRequests, client, hist>>

UpstreamResponse(i, ok) ==
    /\ requests[i].pc = "upstream"
    /\ requests' = [requests EXCEPT ![i] = UpstreamEnd(@, ok)]
    /\ UNCHANGED <<configFile, lastCall, mode, cache, metaRequests, client, hist>>

NextServer ==
    \/ \E e \in {"compartments", "policies"}, p \in RequestProfiles,
          q \in RequestParams, ok \in BOOLEAN : Arrive(e, p, q, ok)
    \/ \E i \in DOMAIN requests, o \in MetaOutcomes : MetaResponse(i, o)
    \/ \E i \in DOMAIN requests, ok \in BOOLEAN : UpstreamResponse(i, ok)

SpecServer == InitServer /\ [][NextServer]_vars

\* The server under the assumption that every metadata request and every
\* upstream call a request waits for eventually ends.
Fairness ==
    \A i \in 1..MaxRequests :
        /\ WF_vars(i \in DOMAIN requests /\ \E o \in MetaOutcomes : MetaResponse(i, o))
        /\ WF_vars(i \in DOMAIN requests /\ \E ok \in BOOLEAN : UpstreamResponse(i, ok))

SpecServerFair == SpecServer /\ Fairness

\* The request ran getInstanceTenancyOcid().
CalledGetRootId(r) ==
    /\ mode
    /\ r.endpoint = "compartments"
    /\ r.profile = INSTANCE_PRINCIPAL_PROFILE_NAME
    /\ r.error # "provider"

\* C3 as claimed: once a getRootId call has succeeded, the metadata request
\* has been issued exactly once in total.
C3_ExactlyOnceAsClaimed ==
    cache # <<>> => metaRequests = 1

\* C3 amended: a call that starts once a value is cached returns that value
\* and issues no request; a call that starts while nothing is cached (the
\* first one, one after a failed call, or one racing the first) issues one
\* request; so the total is one when the first call succeeds before any other
\* call starts.
C3_RootMemoized ==
    LET callers == {i \in DOMAIN requests : CalledGetRootId(requests[i])}
        cold    == {i \in callers : requests[i].cacheAtStart = <<>>}
    IN  /\ \A i \in callers \ cold :
              /\ requests[i].metaCalls = 0
              /\ requests[i].tenancyId = requests[i].cacheAtStart
              /\ requests[i].tenancyId = MetadataCompartmentId
        /\ \A i \in cold : requests[i].metaCalls = 1
        /\ metaRequests = Cardinality(cold)
        /\ cache # <<>> =>
              \E i \in cold : requests[i].tenancyId = cache
        /\ (callers # {} /\ \A i \in callers : i > 1 => i \notin cold)
              => metaRequests <= 1

\* A first call failed, a later one issued the request again and succeeded,
\* and a third was served from the cache.
C3_Witness ==
    /\ metaRequests = 2
    /\ \E i, j, k \in DOMAIN requests :
          /\ i < j /\ j < k
          /\ requests[i].status = 500 /\ requests[i].metaCalls = 1
          /\ requests[j].metaCalls = 1 /\ requests[j].tenancyId = cache
          /\ cache # <<>>
          /\ requests[k].cacheAtStart = cache /\ requests[k].metaCalls = 0
          /\ requests[k].status = 200

\* C4: in instance-principal mode a request whose profile is not the
\* sentinel (absent included) is answered with a client error and calls
\* neither the metadata endpoint nor the upstream identity service.
C4_ModeExclusivity ==
    mode =>
        /\ \A i \in DOMAIN requests :
              requests[i].profile # INSTANCE_PRINCIPAL_PROFILE_NAME =>
                  /\ requests[i].pc = "done"
                  /\ requests[i].status = 400
                  /\ requests[i].metaCalls = 0
                  /\ requests[i].upstreamCalls = 0
                  /\ requests[i].sent = <<>>
        /\ (\A i \in DOMAIN requests :
               requests[i].profile # INSTANCE_PRINCIPAL_PROFILE_NAME)
              => metaRequests = 0 /\ cache = <<>>

\* Both endpoints refused a profile that the configuration file does hold,
\* and one refused an absent profile.
C4_Witness ==
    /\ mode
    /\ configFile.readable
    /\ \E i, j, k \in DOMAIN requests :
          /\ requests[i].endpoint = "compartments" /\ requests[i].profile = Dev
          /\ requests[j].endpoint = "policies" /\ requests[j].profile = Dev
          /\ requests[j].param # <<>>
          /\ requests[k].profile = <<>>
          /\ requests[i].status = 400 /\ requests[j].status = 400
          /\ requests[k].status = 400

-----------------------------------------------------------------------------
(* The client: App.jsx and CompartmentBrowser.  `client` is one record, so *)
(* that a handler is the composition of the setState calls and fetches it  *)
(* makes, in the order of the code.  A fetch in flight is a record that    *)
(* keeps what its callbacks closed over: the selectedProfile of the render *)
(* that issued it, its argument, setRootId, and whether the component      *)
(* instance that issued it is still mounted (live).                        *)

Fetch(kind, profile, id, setRootId, live) ==
    [kind |-> kind, profile |-> profile, id |-> id, setRootId |-> setRootId,
     live |-> live]

\* useState initial values of CompartmentBrowser.
LocalInit(s) ==
    [s EXCEPT !.profiles = <<>>, !.compartments = <<>>, !.policies = <<>>,
              !.loadingProfiles = FALSE, !.loadingCompartments = FALSE,
              !.loadingPolicies = FALSE, !.error = ""]

\* A callback of an unmounted instance: its setState calls on the local state
\* do nothing, its calls of the lifted setters and its fetches happen.
KeepLocal(old, new) ==
    [new EXCEPT !.profiles = old.profiles, !.compartments = old.compartments,
                !.policies = old.policies,
                !.loadingProfiles = old.loadingProfiles,
                !.loadingCompartments = old.loadingCompartments,
                !.loadingPolicies = old.loadingPolicies, !.error = old.error]

fetchProfiles(s) ==
    [s EXCEPT !.loadingProfiles = TRUE,
              !.inflight = @ (+) SetToBag({Fetch("profiles", <<>>, <<>>, FALSE, TRUE)})]

fetchPolicies(s, profile, compartmentId, live) ==
    IF profile = <<>> \/ compartmentId = <<>>
    THEN [s EXCEPT !.policies = <<>>]
    ELSE [s EXCEPT !.loadingPolicies = TRUE, !.error = "",
                   !.inflight = @ (+) SetToBag({Fetch("policies", profile,
                                                     compartmentId, FALSE, live)})]

fetchChildren(s, profile, parentId, setRootId) ==
    IF profile = <<>> THEN s
    ELSE [s EXCEPT !.loadingCompartments = TRUE, !.error = "",
                   !.inflight = @ (+) SetToBag({Fetch("children", profile,
                                                     parentId, setRootId, TRUE)})]

\* The value a stack entry is made of.
StackEntry(c) == [id |-> c.id, name |-> c.name]

\* handleDrilldown leaving the policies to the callback of the children fetch.
handleDrilldown_SkipsPolicies(s, c) ==
    fetchChildren([s EXCEPT !.compartmentStack = Append(@, StackEntry(c))],
                  s.selectedProfile, c.id, FALSE)

handleDrilldown(s, c) ==
    LET s1 == [s EXCEPT !.compartmentStack = Append(@, StackEntry(c))]
        s2 == fetchChildren(s1, s.selectedProfile, c.id, FALSE)
    IN  fetchPolicies(s2, s.selectedProfile, c.id, TRUE)

\* handleBack removing the oldest entry instead of the newest.
handleBack_DropsFirst(s) ==
    LET newStack == Tail(s.compartmentStack)
        parentId == IF newStack = <<>> THEN s.profileRootId
                    ELSE newStack[Len(newStack)].id
        s1 == [s EXCEPT !.compartmentStack = newStack]
        s2 == fetchChildren(s1, s.selectedProfile, parentId, FALSE)
    IN  fetchPolicies(s2, s.selectedProfile, parentId, TRUE)

\* handleBack fetching for the entry it removes.
handleBack_OldTop(s) ==
    LET newStack == SubSeq(s.compartmentStack, 1, Len(s.compartmentStack) - 1)
        parentId == s.compartmentStack[Len(s.compartmentStack)].id
        s1 == [s EXCEPT !.compartmentStack = newStack]
        s2 == fetchChildren(s1, s.selectedProfile, parentId, FALSE)
    IN  fetchPolicies(s2, s.selectedProfile, parentId, TRUE)

handleBack(s) ==
    LET newStack == SubSeq(s.compartmentStack, 1, Len(s.compartmentStack) - 1)
        parentId == IF newStack = <<>> THEN s.profileRootId
                    ELSE newStack[Len(newStack)].id
        s1 == [s EXCEPT !.compartmentStack = newStack]
        s2 == fetchChildren(s1, s.selectedProfile, parentId, FALSE)
    IN  fetchPolicies(s2, s.selectedProfile, parentId, TRUE)

\* The effect without its test of selectedProfile.
selectedProfileEffect_AlwaysFetches(s) ==
    [s EXCEPT !.compartmentStack = <<>>, !.loadingCompartments = TRUE, !.error = "",
              !.inflight = @ (+) SetToBag({Fetch("children", s.selectedProfile,
                                                <<>>, TRUE, TRUE)})]

\* useEffect(..., [selectedProfile]) of the render that follows a change of
\* selectedProfile, and of a mount.
selectedProfileEffect(s) ==
    IF s.selectedProfile # <<>>
    THEN fetchChildren([s EXCEPT !.compartmentStack = <<>>],
                       s.selectedProfile, <<>>, TRUE)
    ELSE [s EXCEPT !.compartments = <<>>, !.policies = <<>>,
                   !.compartmentStack = <<>>, !.profileRootId = <<>>]

\* handleProfileChange without setProfileRootId('').
handleProfileChange_KeepsRoot(s, profile) ==
    selectedProfileEffect(
        [s EXCEPT !.selectedProfile = profile, !.compartments = <<>>,
                  !.policies = <<>>, !.compartmentStack = <<>>])

\* onChange of the profile <select>, then the effect of the next render.
handleProfileChange(s, profile) ==
    selectedProfileEffect(
        [s EXCEPT !.selectedProfile = profile, !.compartments = <<>>,
                  !.policies = <<>>, !.compartmentStack = <<>>,
                  !.profileRootId = <<>>])

\* App.handlePolicyClick: the tab changes and CompartmentBrowser unmounts.
handlePolicyClick(s, policy) ==
    LET live == BagToSet(s.inflight)
        dead == {[f EXCEPT !.live = FALSE] : f \in live}
        n(g) == (IF g \in live THEN s.inflight[g] ELSE 0)
                + (IF [g EXCEPT !.live = TRUE] \in live
                   THEN s.inflight[[g EXCEPT !.live = TRUE]] ELSE 0)
    IN  [LocalInit(s) EXCEPT !.selectedPolicy = <<policy>>, !.tab = "policyDetail",
                             !.inflight = [g \in dead |-> n(g)]]

\* App.handleBack: the tab changes back and a new CompartmentBrowser mounts,
\* running both of its effects.
handleDetailBack(s) ==
    selectedProfileEffect(
        fetchProfiles([LocalInit(s) EXCEPT !.selectedPolicy = <<>>, !.tab = "main"]))

\* What a fetch resolves to on the client.
Body(kind, items, error) == [kind |-> kind, items |-> items, error |-> error]

\* The callbacks of fetchChildren taking the root hint from every response.
childrenDone_AlwaysSetsRoot(s, f, data) ==
    IF data.kind = "array"
    THEN LET hint == IF Len(data.items) > 0
                     THEN data.items[1].compartmentId ELSE <<>>
             s1 == [s EXCEPT !.compartments = data.items]
             s2 == IF hint # <<>> THEN [s1 EXCEPT !.profileRootId = hint] ELSE s1
             s3 == fetchPolicies(s2, f.profile,
                                 IF hint # <<>> THEN hint ELSE f.id, f.live)
         IN  [s3 EXCEPT !.loadingCompartments = FALSE]
    ELSE IF data.kind \in {"error", "object"}
    THEN [s EXCEPT !.error = IF data.error # "" THEN data.error
                             ELSE "Unexpected response",
                   !.compartments = <<>>, !.loadingCompartments = FALSE]
    ELSE [s EXCEPT !.error = "Failed to load compartments.",
                   !.compartments = <<>>, !.loadingCompartments = FALSE]

\* The callbacks of fetchChildren without the .catch: a rejected fetch and
\* the TypeError of reading null.error are handled by nothing.
childrenDone_NoCatch(s, f, data) ==
    IF data.kind = "array"
    THEN LET hint == IF f.setRootId /\ Len(data.items) > 0
                     THEN data.items[1].compartmentId ELSE <<>>
             s1 == [s EXCEPT !.compartments = data.items]
             s2 == IF hint # <<>> THEN [s1 EXCEPT !.profileRootId = hint] ELSE s1
             s3 == fetchPolicies(s2, f.profile,
                                 IF hint # <<>> THEN hint ELSE f.id, f.live)
         IN  [s3 EXCEPT !.loadingCompartments = FALSE]
    ELSE IF data.kind \in {"error", "object"}
    THEN [s EXCEPT !.error = IF data.error # "" THEN data.error
                             ELSE "Unexpected response",
                   !.compartments = <<>>, !.loadingCompartments = FALSE]
    ELSE s

\* The callbacks of fetchChildren with failure branches that keep the list.
childrenDone_KeepsListOnError(s, f, data) ==
    IF data.kind = "array"
    THEN LET hint == IF f.setRootId /\ Len(data.items) > 0
                     THEN data.items[1].compartmentId ELSE <<>>
             s1 == [s EXCEPT !.compartments = data.items]
             s2 == IF hint # <<>> THEN [s1 EXCEPT !.profileRootId = hint] ELSE s1
             s3 == fetchPolicies(s2, f.profile,
                                 IF hint # <<>> THEN hint ELSE f.id, f.live)
         IN  [s3 EXCEPT !.loadingCompartments = FALSE]
    ELSE [s EXCEPT !.error = "Failed to load compartments.",
                   !.loadingCompartments = FALSE]

\* .then / .catch of the fetch of fetchChildren.
childrenDone(s, f, data) ==
    IF data.kind = "array"
    THEN LET hint == IF f.setRootId /\ Len(data.items) > 0
                     THEN data.items[1].compartmentId ELSE <<>>
             s1 == [s EXCEPT !.compartments = data.items]
             s2 == IF hint # <<>> THEN [s1 EXCEPT !.profileRootId = hint] ELSE s1
             s3 == fetchPolicies(s2, f.profile,
                                 IF hint # <<>> THEN hint ELSE f.id, f.live)
         IN  [s3 EXCEPT !.loadingCompartments = FALSE]
    ELSE IF data.kind \in {"error", "object"}
    THEN [s EXCEPT !.error = IF data.error # "" THEN data.error
                             ELSE "Unexpected response",
                   !.compartments = <<>>, !.loadingCompartments = FALSE]
    ELSE [s EXCEPT !.error = "Failed to load compartments.",
                   !.compartments = <<>>, !.loadingCompartments = FALSE]

\* The callbacks of fetchPolicies with failure branches that keep the list.
policiesDone_KeepsListOnError(s, f, data) ==
    IF data.kind = "array"
    THEN [s EXCEPT !.policies = data.items, !.loadingPolicies = FALSE]
    ELSE [s EXCEPT !.error = "Failed to load policies.", !.loadingPolicies = FALSE]

\* The callbacks of fetchPolicies asking again when the fetch failed.
policiesDone_Retries(s, f, data) ==
    IF data.kind = "array"
    THEN [s EXCEPT !.policies = data.items, !.loadingPolicies = FALSE]
    ELSE fetchPolicies([s EXCEPT !.policies = <<>>], f.profile, f.id, f.live)

\* .then / .catch of the fetch of fetchPolicies.
policiesDone(s, f, data) ==
    IF data.kind = "array"
    THEN [s EXCEPT !.policies = data.items, !.loadingPolicies = FALSE]
    ELSE IF data.kind \in {"error", "object"}
    THEN [s EXCEPT !.error = IF data.error # "" THEN data.error
                             ELSE "Unexpected response",
                   !.policies = <<>>, !.loadingPolicies = FALSE]
    ELSE [s EXCEPT !.error = "Failed to load policies.",
                   !.policies = <<>>, !.loadingPolicies = FALSE]

\* .then / .catch of the fetch of /api/profiles.
\* data.profiles || []: an object without that field gives the empty list.
profilesDone(s, data) ==
    IF data.kind \in {"profiles", "error", "object"}
    THEN [s EXCEPT !.profiles = IF data.kind = "profiles" THEN data.items ELSE <<>>,
                   !.loadingProfiles = FALSE]
    ELSE [s EXCEPT !.error = "Could not load profiles.", !.loadingProfiles = FALSE]

\* The callbacks of fetch f run on s0, the state with f no longer in flight.
Callbacks(s0, f, data) ==
    IF f.kind = "children" THEN childrenDone(s0, f, data)
    ELSE IF f.kind = "policies" THEN policiesDone(s0, f, data)
    ELSE profilesDone(s0, data)

Settled(s0, s1, f) == IF f.live THEN s1 ELSE KeepLocal(s0, s1)

Landed(s0, f, data) == Settled(s0, Callbacks(s0, f, data), f)

fetchDone(s, f, data) == Landed([s EXCEPT !.inflight = @ (-) SetToBag({f})], f, data)

-----------------------------------------------------------------------------
(* The server as the client sees it: one request run from arrival to its   *)
(* answer.                                                                 *)

\* A request up to its first await.
Start(ipMode, file, c, endpoint, profile, param) ==
    IF endpoint = "compartments"
    THEN CompartmentsHandler(ipMode, file, c, NewRequest(endpoint, profile, param), TRUE)
    ELSE PoliciesHandler(ipMode, file, NewRequest(endpoint, profile, param), TRUE)

\* ... resumed by the end of its metadata request, when it waits for one ...
Resume(r0, c, metaOutcome) ==
    IF r0.pc = "meta" THEN AfterTenancy(r0, MetaEnd(c, metaOutcome).value) ELSE r0

\* ... and by the end of its upstream call, when it waits for one.
Finish(r1, upstreamOk) ==
    IF r1.pc = "upstream" THEN UpstreamEnd(r1, upstreamOk) ELSE r1

CacheAfter(r0, c, metaOutcome) ==
    IF r0.pc = "meta" THEN MetaEnd(c, metaOutcome).cache ELSE c

ServerRun(ipMode, file, c, endpoint, profile, param, metaOutcome, upstreamOk) ==
    [req   |-> Finish(Resume(Start(ipMode, file, c, endpoint, profile, param),
                             c, metaOutcome), upstreamOk),
     cache |-> CacheAfter(Start(ipMode, file, c, endpoint, profile, param),
                          c, metaOutcome)]

\* How a fetch of the client ends: the server answers with everything it
\* calls succeeding, with its metadata request failing, or with its upstream
\* call failing; or the body is JSON null or an object that is neither an
\* array nor an error; or the fetch itself rejects.
Outcomes == {"ok", "meta_fail", "upstream_fail", "null_body", "object_body", "network"}

\* res.json(...) as r.json() gives it back: the array, or the error object.
Received(run) ==
    [data  |-> IF run.req.status = 200
               THEN Body("array", run.req.items, "")
               ELSE Body("error", <<>>, run.req.error),
     cache |-> run.cache]

Answer(ipMode, file, c, f, outcome) ==
    IF outcome = "network" THEN [data |-> Body("reject", <<>>, ""), cache |-> c]
    ELSE IF outcome = "null_body" THEN [data |-> Body("null", <<>>, ""), cache |-> c]
    ELSE IF outcome = "object_body" THEN [data |-> Body("object", <<>>, ""), cache |-> c]
    ELSE IF f.kind = "profiles"
    THEN [data |-> Body("profiles", ProfilesHandler(ipMode, file).profiles, ""),
          cache |-> c]
    ELSE Received(ServerRun(ipMode, file, c,
                      IF f.kind = "children" THEN "compartments" ELSE "policies",
                      f.profile, f.id,
                      IF outcome = "meta_fail" THEN "error" ELSE "ok",
                      outcome # "upstream_fail"))

-----------------------------------------------------------------------------
(* The client specification: navigation events and fetch completions, one  *)
(* at a time, in any order.                                                *)

MaxInFlight == 2
MaxNavLog == 3

Range(q) == {q[i] : i \in DOMAIN q}

\* A children or policies fetch is in flight.
Busy(s) == \E f \in BagToSet(s.inflight) : f.kind # "profiles"

Room(s) == BagCardinality(s.inflight) <= MaxInFlight

BackEvent == [id |-> <<>>, name |-> "back"]

\* hist.log, kept by the specifications that set hist.on: the drill-downs
\* (their stack entries) and backs since the stack was last reset, as long as
\* they fit (hist.tracked).
NoHistory == [on |-> FALSE, log |-> <<>>, tracked |-> FALSE]
NewLog == [on |-> TRUE, log |-> <<>>, tracked |-> TRUE]

Logged(h, event) ==
    IF ~h.on THEN h
    ELSE IF h.tracked /\ Len(h.log) < MaxNavLog
    THEN [h EXCEPT !.log = Append(@, event)]
    ELSE [h EXCEPT !.log = <<>>, !.tracked = FALSE]

Reset(h) == IF h.on THEN NewLog ELSE h

MountedClient ==
    LET blank == [tab |-> "main", selectedPolicy |-> <<>>, selectedProfile |-> <<>>,
                  profileRootId |-> <<>>, compartmentStack |-> <<>>,
                  profiles |-> <<>>, compartments |-> <<>>, policies |-> <<>>,
                  loadingProfiles |-> FALSE, loadingCompartments |-> FALSE,
                  loadingPolicies |-> FALSE, error |-> "", inflight |-> EmptyBag]
    IN  selectedProfileEffect(fetchProfiles(blank))

InitClient ==
    /\ configFile = [readable |-> TRUE, content |-> DevConfig]
    /\ lastCall = NoCall
    /\ mode \in BOOLEAN
    /\ IdleServer
    /\ client = MountedClient

Init ==
    /\ InitClient
    /\ hist = NoHistory

\* What the render of CompartmentBrowser offers: the profile <select>, ...
ProfileSelectShown(s) == s.tab = "main" /\ ~s.loadingProfiles

\* ... the Back button shown unless the user never leaves the root, ...
BackShown_WhenIdle(s) ==
    /\ s.tab = "main"
    /\ s.selectedProfile # <<>>
    /\ Len(s.compartmentStack) > 0
    /\ ~s.loadingCompartments

\* ... the Back button, ...
BackShown(s) ==
    /\ s.tab = "main"
    /\ s.selectedProfile # <<>>
    /\ Len(s.compartmentStack) > 0

\* ... and the row of compartment c in the table of sub-compartments.
RowShown(s, c) ==
    /\ s.tab = "main"
    /\ s.selectedProfile # <<>>
    /\ ~s.loadingCompartments
    /\ c \in Range(s.compartments)

SelectProfile(p) ==
    /\ ProfileSelectShown(client)
    /\ p \in Range(client.profiles) \cup {<<>>}
    /\ p # client.selectedProfile
    /\ client' = handleProfileChange(client, p)
    /\ Room(client')
    /\ hist' = Reset(hist)
    /\ UNCHANGED <<configFile, lastCall, mode, cache, requests, metaRequests>>

Drilldown(c) ==
    /\ RowShown(client, c)
    /\ client' = handleDrilldown(client, c)
    /\ Room(client')
    /\ hist' = Logged(hist, StackEntry(c))
    /\ UNCHANGED <<configFile, lastCall, mode, cache, requests, metaRequests>>

Back ==
    /\ BackShown(client)
    /\ client' = handleBack(client)
    /\ Room(client')
    /\ hist' = Logged(hist, BackEvent)
    /\ UNCHANGED <<configFile, lastCall, mode, cache, requests, metaRequests>>

PolicyClick(policy) ==
    /\ client.tab = "main"
    /\ client.selectedProfile # <<>>
    /\ ~client.loadingPolicies
    /\ policy \in Range(client.policies)
    /\ client' = handlePolicyClick(client, policy)
    /\ UNCHANGED <<configFile, lastCall, mode, cache, requests, metaRequests, hist>>

DetailBack ==
    /\ client.tab = "policyDetail"
    /\ client' = handleDetailBack(client)
    /\ Room(client')
    /\ hist' = Reset(hist)
    /\ UNCHANGED <<configFile, lastCall, mode, cache, requests, metaRequests>>

Answered(f, a) ==
    /\ client' = fetchDone(client, f, a.data)
    /\ cache' = a.cache

Complete(f, outcome) ==
    /\ f \in BagToSet(client.inflight)
    /\ Answered(f, Answer(mode, configFile, cache, f, outcome))
    /\ UNCHANGED <<configFile, lastCall, mode, requests, metaRequests, hist>>

\* A navigation event: something the user does.
NavEvent ==
    \/ \E p \in {<<>>, Dev, Ops, INSTANCE_PRINCIPAL_PROFILE_NAME} : SelectProfile(p)
    \/ \E c \in Range(client.compartments) : Drilldown(c)
    \/ Back
    \/ \E policy \in Range(client.policies) : PolicyClick(policy)
    \/ DetailBack

Next ==
    \/ NavEvent
    \/ \E f \in BagToSet(client.inflight), o \in Outcomes : Complete(f, o)

Spec == Init /\ [][Next]_vars

\* The client with the log of its drill-downs and backs.
InitNav ==
    /\ InitClient
    /\ hist = NewLog

SpecNav == InitNav /\ [][Next]_vars

\* The end-to-end scenario: the user waits for the fetches of an event to
\* complete before the next event, and the server and the network do not
\* fail.
NextSequential ==
    \/ ~Busy(client) /\ NavEvent
    \/ \E f \in BagToSet(client.inflight) : Complete(f, "ok")

SpecSequential == InitNav /\ [][NextSequential]_vars

\* The user waits for the fetches of an event to complete before the next
\* event; the fetches end in any way.
NextNoOverlap ==
    \/ ~Busy(client) /\ NavEvent
    \/ \E f \in BagToSet(client.inflight), o \in Outcomes : Complete(f, o)

SpecNoOverlap == Init /\ [][NextNoOverlap]_vars

-----------------------------------------------------------------------------
(* Navigation claims                                                       *)

IsPush(e) == e # BackEvent

\* The pushed entries of a log, in push order (N is their number).
Pushes(log) == SelectSeq(log, IsPush)

\* M: the number of backs of a log.
Backs(log) == Len(log) - Len(Pushes(log))

\* The pushed entries that no back has removed, each back removing the most
\* recently pushed entry that is left.
RECURSIVE Remaining(_)
Remaining(log) ==
    IF log = <<>> THEN <<>>
    ELSE LET before == Remaining(SubSeq(log, 1, Len(log) - 1))
             e      == log[Len(log)]
         IN  IF IsPush(e) THEN Append(before, e)
             ELSE SubSeq(before, 1, Len(before) - 1)

\* No drill-down follows a back.
BacksLast(log) ==
    \A i, j \in DOMAIN log : (i < j /\ ~IsPush(log[i])) => ~IsPush(log[j])

\* C1 as claimed: after N drill-downs and M backs, in any order, the stack
\* is the first N-M pushed entries.
C1_FirstPushedAsClaimed ==
    hist.tracked =>
        client.compartmentStack =
            SubSeq(Pushes(hist.log), 1, Len(Pushes(hist.log)) - Backs(hist.log))

\* C1 amended: the stack length is N-M and the stack holds, in push order,
\* the pushed entries that no back has removed; these are the first N-M
\* pushed entries when no drill-down follows a back.
C1_StackInvariant ==
    hist.tracked =>
        /\ Len(client.compartmentStack) = Len(Pushes(hist.log)) - Backs(hist.log)
        /\ client.compartmentStack = Remaining(hist.log)
        /\ BacksLast(hist.log) =>
              client.compartmentStack =
                  SubSeq(Pushes(hist.log), 1,
                         Len(Pushes(hist.log)) - Backs(hist.log))

\* Two drill-downs and then a back: the stack is the first pushed entry.
C1_Witness ==
    /\ hist.tracked
    /\ Len(hist.log) = 3
    /\ IsPush(hist.log[1]) /\ IsPush(hist.log[2]) /\ ~IsPush(hist.log[3])
    /\ client.compartmentStack = <<hist.log[1]>>

EntryY == [id |-> Y, name |-> "Sales"]

\* C2: the end-to-end scenario.  Profile dev has tenancy T.  Selecting it
\* sends a children request without parent and shows the children of T;
\* drilling into the returned node Y pushes it and shows the children and
\* policies of Y; one back empties the stack and shows those of T again.
C2_EndToEnd ==
    (~mode /\ client.tab = "main" /\ client.selectedProfile = Dev /\ hist.tracked) =>
        /\ \A f \in BagToSet(client.inflight) :
              (hist.log = <<>> /\ f.kind = "children") =>
                  f = Fetch("children", Dev, <<>>, TRUE, TRUE)
        /\ \A f \in BagToSet(client.inflight) :
              (hist.log = <<EntryY>> /\ f.kind # "profiles") =>
                  f.profile = Dev /\ f.id = Y
        /\ (hist.log = <<>> /\ ~Busy(client)) =>
              /\ client.compartmentStack = <<>>
              /\ client.compartments = UpstreamCompartments(T)
              /\ client.policies = UpstreamPolicies(T)
        /\ (hist.log = <<EntryY>> /\ ~Busy(client)) =>
              /\ client.compartmentStack = <<EntryY>>
              /\ client.compartments = UpstreamCompartments(Y)
              /\ client.policies = UpstreamPolicies(Y)
        /\ hist.log = <<EntryY, BackEvent>> =>
              /\ client.compartmentStack = <<>>
              /\ \A f \in BagToSet(client.inflight) :
                    f.kind # "profiles" => f.profile = Dev /\ f.id = T
              /\ ~Busy(client) =>
                    /\ client.compartments = UpstreamCompartments(T)
                    /\ client.policies = UpstreamPolicies(T)

\* The scenario has run to its end.
C2_Witness ==
    /\ ~mode
    /\ client.selectedProfile = Dev
    /\ hist.log = <<EntryY, BackEvent>>
    /\ ~Busy(client)
    /\ client.compartmentStack = <<>>
    /\ client.policies = UpstreamPolicies(T)
    /\ client.error = ""

One(f) == SetToBag({f})

\* C9: selecting a non-empty profile empties the stack, clears
\* resolvedRootId and issues a children-fetch without parent; when that fetch
\* is answered with an array whose first item carries a root hint,
\* resolvedRootId becomes the hint and a policies-fetch for that id is issued
\* in the same step.
C9_SelectStep ==
    /\ (client'.selectedProfile # client.selectedProfile
            /\ client'.selectedProfile # <<>>) =>
          /\ client'.compartmentStack = <<>>
          /\ client'.profileRootId = <<>>
          /\ client'.inflight =
                 client.inflight
                     (+) One(Fetch("children", client'.selectedProfile, <<>>, TRUE, TRUE))
    /\ \A f \in BagToSet(client.inflight) :
          (/\ f.kind = "children" /\ f.setRootId
           /\ CopiesIn(f, client'.inflight) < CopiesIn(f, client.inflight)) =>
              \A o \in Outcomes :
                  LET a == Answer(mode, configFile, cache, f, o)
                  IN  (/\ a.data.kind = "array"
                       /\ a.data.items # <<>>
                       /\ Answered(f, a)) =>
                          /\ client'.profileRootId = a.data.items[1].compartmentId
                          /\ client'.inflight =
                                 (client.inflight (-) One(f))
                                     (+) One(Fetch("policies", f.profile,
                                                   a.data.items[1].compartmentId,
                                                   FALSE, f.live))

C9_SelectProfile == [][C9_SelectStep]_vars

\* The children-fetch of a selection has been answered: the root id is
\* memoized and the policies-fetch for it is in flight.
C9_Witness ==
    /\ client.selectedProfile = Dev
    /\ client.compartmentStack = <<>>
    /\ client.profileRootId = T
    /\ client.compartments = UpstreamCompartments(T)
    /\ client.inflight = One(Fetch("policies", Dev, T, FALSE, TRUE))

\* C10: a drill-down into node N appends {N.id, N.name} to the stack and
\* issues a children-fetch and a policies-fetch for N.id, both for the
\* selected profile.
C10_DrilldownStep ==
    \A c \in Range(client.compartments) :
        Drilldown(c) =>
            /\ client'.compartmentStack =
                   Append(client.compartmentStack, [id |-> c.id, name |-> c.name])
            /\ client'.selectedProfile = client.selectedProfile
            /\ client'.inflight =
                   client.inflight
                       (+) One(Fetch("children", client.selectedProfile, c.id, FALSE, TRUE))
                       (+) One(Fetch("policies", client.selectedProfile, c.id, FALSE, TRUE))

C10_Drilldown == [][C10_DrilldownStep]_vars

\* A drill-down into Y below T has just happened.
C10_Witness ==
    /\ client.selectedProfile = Dev
    /\ client.compartmentStack = <<EntryY>>
    /\ client.inflight =
           One(Fetch("children", Dev, Y, FALSE, TRUE))
               (+) One(Fetch("policies", Dev, Y, FALSE, TRUE))

\* The stack without its last entry, and the effective current grouping id
\* of a stack: its top's id, or resolvedRootId when it is empty.
Popped(stack) == SubSeq(stack, 1, Len(stack) - 1)

EffectiveId(stack, rootId) ==
    IF stack = <<>> THEN rootId ELSE stack[Len(stack)].id

\* C11 as claimed: a back removes the last stack entry and issues a
\* children-fetch and a policies-fetch for the new top's id, or for
\* resolvedRootId when the stack is now empty.
C11_BackStepAsClaimed ==
    (Len(client'.compartmentStack) < Len(client.compartmentStack) /\ Back) =>
        /\ client'.compartmentStack = Popped(client.compartmentStack)
        /\ client'.inflight =
               client.inflight
                   (+) One(Fetch("children", client.selectedProfile,
                                 EffectiveId(client'.compartmentStack, client.profileRootId),
                                 FALSE, TRUE))
                   (+) One(Fetch("policies", client.selectedProfile,
                                 EffectiveId(client'.compartmentStack, client.profileRootId),
                                 FALSE, TRUE))

C11_BackStep ==
    (Len(client'.compartmentStack) < Len(client.compartmentStack) /\ Back) =>
        /\ client'.compartmentStack = Popped(client.compartmentStack)
        /\ EffectiveId(client'.compartmentStack, client.profileRootId) # <<>> =>
              client'.inflight =
                  client.inflight
                      (+) One(Fetch("children", client.selectedProfile,
                                    EffectiveId(client'.compartmentStack, client.profileRootId),
                                    FALSE, TRUE))
                      (+) One(Fetch("policies", client.selectedProfile,
                                    EffectiveId(client'.compartmentStack, client.profileRootId),
                                    FALSE, TRUE))
        /\ EffectiveId(client'.compartmentStack, client.profileRootId) = <<>> =>
              /\ client'.compartmentStack = <<>>
              /\ client'.policies = <<>>
              /\ client'.inflight =
                     client.inflight
                         (+) One(Fetch("children", client.selectedProfile, <<>>, FALSE, TRUE))

C12_DeselectStep ==
    (client.selectedProfile # <<>> /\ client'.selectedProfile = <<>>) =>
        /\ SelectProfile(<<>>)
        /\ client'.compartmentStack = <<>>
        /\ client'.profileRootId = <<>>
        /\ client'.compartments = <<>>
        /\ client'.policies = <<>>
        /\ client'.inflight = client.inflight

C12_Deselect == [][C12_DeselectStep]_vars

\* The profile was deselected while a fetch of it was in flight.
C12_Witness ==
    /\ client.tab = "main"
    /\ client.selectedProfile = <<>>
    /\ Busy(client)
    /\ client.compartmentStack = <<>>
    /\ client.profileRootId = <<>>
    /\ client.compartments = <<>>
    /\ client.policies = <<>>

\* The step issues a policies-fetch of profile p, for grouping id when id is
\* given (a fetch without parent is one for the root, whose id the client
\* may not know).
IssuesPolicies(p, id) ==
    \E g \in BagToSet(client'.inflight) :
        /\ g.kind = "policies"
        /\ g.profile = p
        /\ id # <<>> => g.id = id
        /\ CopiesIn(g, client'.inflight) > CopiesIn(g, client.inflight)

\* C13: whenever a children-fetch for a grouping succeeds with zero items, a
\* policies-fetch is issued for that same grouping, the root after a profile
\* selection included.
C13_ZeroItemsStep ==
    \A f \in BagToSet(client.inflight) :
        (/\ f.kind = "children"
         /\ CopiesIn(f, client'.inflight) < CopiesIn(f, client.inflight)) =>
            \A o \in Outcomes :
                LET a == Answer(mode, configFile, cache, f, o)
                IN  (/\ a.data.kind = "array"
                     /\ a.data.items = <<>>
                     /\ Answered(f, a)) => IssuesPolicies(f.profile, f.id)

C13_ZeroItemsStillFetchPolicies == [][C13_ZeroItemsStep]_vars

\* The list a fetch fills.
ListOf(s, f) == IF f.kind = "children" THEN s.compartments ELSE s.policies

\* The step is the failure of the children- or policies-fetch f: a network
\* error, an error payload, or a body that is no array.
FailsWith(f, a) == a.data.kind \notin {"array", "profiles"} /\ Answered(f, a)

FailureOf(f) ==
    /\ f.kind \in {"children", "policies"}
    /\ CopiesIn(f, client'.inflight) < CopiesIn(f, client.inflight)
    /\ \E o \in Outcomes : FailsWith(f, Answer(mode, configFile, cache, f, o))

\* C14 as claimed: every fetch failure sets the error message to a non-empty
\* value, empties the corresponding list and leaves the stack as it was.
C14_FailureStepAsClaimed ==
    \A f \in BagToSet(client.inflight) :
        FailureOf(f) =>
            /\ client'.error # ""
            /\ ListOf(client', f) = <<>>
            /\ client'.compartmentStack = client.compartmentStack

C14_EveryFailureAsClaimed == [][C14_FailureStepAsClaimed]_vars

\* C14 amended: the failure of a fetch whose issuing view is still mounted
\* sets the error message to a non-empty value and empties the corresponding
\* list; the failure of a fetch issued by a view that was since left for the
\* policy detail changes neither the message nor the lists; neither changes
\* the stack.
C14_FailureStep ==
    \A f \in BagToSet(client.inflight) :
        FailureOf(f) =>
            /\ client'.compartmentStack = client.compartmentStack
            /\ f.live =>
                  /\ client'.error # ""
                  /\ ListOf(client', f) = <<>>
            /\ ~f.live =>
                  /\ client'.error = client.error
                  /\ client'.compartments = client.compartments
                  /\ client'.policies = client.policies

C14_FetchFailure == [][C14_FailureStep]_vars

\* The children-fetch of the drill-down into Y failed at the upstream call:
\* the message is set, the list is empty, Y is still on the stack.
C14_Witness ==
    /\ client.tab = "main"
    /\ client.compartmentStack = <<EntryY>>
    /\ client.error = FailMessage("compartments")
    /\ client.compartments = <<>>
    /\ ~client.loadingCompartments

-----------------------------------------------------------------------------
(* Server claims: status mapping and the id sent upstream                  *)

\* The configuration names the profile: the file is readable and a section
\* of that name holds a field.
Configured(profile) == configFile.readable /\ FieldLinesOf(profile) # {}

\* The status of a request after the tests of its parameters and profile:
\* 500 without an answer of the upstream service, or what the upstream call
\* made of it.
AfterChecks(r, items) ==
    \/ r.pc = "upstream" /\ r.upstreamCalls = 1 /\ r.status = 0
    \/ r.pc = "done" /\ r.status = 500 /\ r.upstreamCalls <= 1 /\ r.items = <<>>
    \/ r.pc = "done" /\ r.status = 200 /\ r.upstreamCalls = 1 /\ r.items = items

\* C15, the states: in profile mode GET /api/compartments answers 400 when
\* profile is missing or empty, otherwise 404 when the configuration does not
\* name the profile ('instance-principal' like any other name), otherwise 500
\* or 200 with the children; the upstream service is called only when the
\* first two tests pass.
C15_StatusOrder ==
    \A i \in DOMAIN requests :
        (~mode /\ requests[i].endpoint = "compartments") =>
            IF requests[i].profile = <<>>
            THEN /\ requests[i].pc = "done" /\ requests[i].status = 400
                 /\ requests[i].upstreamCalls = 0
            ELSE IF ~Configured(requests[i].profile)
            THEN /\ requests[i].pc = "done" /\ requests[i].status = 404
                 /\ requests[i].upstreamCalls = 0
            ELSE AfterChecks(requests[i], UpstreamCompartments(requests[i].sent))

\* C15, the steps: a failing upstream call gives 500, a succeeding one 200.
C15_UpstreamStep ==
    \A i \in DOMAIN requests :
        (/\ ~mode /\ requests[i].endpoint = "compartments"
         /\ requests[i].pc = "upstream"
         /\ requests'[i].pc = "done") =>
            /\ UpstreamResponse(i, FALSE) => requests'[i].status = 500
            /\ (UpstreamResponse(i, TRUE) /\ requests[i].sent \in Groupings)
                  => requests'[i].status = 200

\* C15: the status mapping of GET /api/compartments in profile mode.
C15_CompartmentsStatus == []C15_StatusOrder /\ [][C15_UpstreamStep]_vars

\* Profile mode answered 404 for the sentinel name, 500 for a failed upstream
\* call and 200 with the children of the tenancy.
C15_Witness ==
    /\ ~mode
    /\ \E i, j, k \in DOMAIN requests :
          /\ requests[i].endpoint = "compartments"
          /\ requests[i].profile = INSTANCE_PRINCIPAL_PROFILE_NAME
          /\ requests[i].status = 404
          /\ requests[j].endpoint = "compartments"
          /\ requests[j].status = 500 /\ requests[j].upstreamCalls = 1
          /\ requests[k].endpoint = "compartments"
          /\ requests[k].profile = Dev /\ requests[k].param = <<>>
          /\ requests[k].status = 200
          /\ requests[k].items = UpstreamCompartments(T)

\* C16, the states: in both modes GET /api/policies without a compartmentId
\* answers 400 and calls nothing; in profile mode it answers 400 when profile
\* or compartmentId is missing, otherwise 404 when the configuration does not
\* name the profile, otherwise 500 or 200 with the policies of compartmentId.
C16_StatusOrder ==
    \A i \in DOMAIN requests :
        requests[i].endpoint = "policies" =>
            /\ requests[i].param = <<>> =>
                  /\ requests[i].pc = "done" /\ requests[i].status = 400
                  /\ requests[i].upstreamCalls = 0 /\ requests[i].metaCalls = 0
            /\ ~mode =>
                  IF requests[i].profile = <<>> \/ requests[i].param = <<>>
                  THEN /\ requests[i].pc = "done" /\ requests[i].status = 400
                       /\ requests[i].upstreamCalls = 0
                  ELSE IF ~Configured(requests[i].profile)
                  THEN /\ requests[i].pc = "done" /\ requests[i].status = 404
                       /\ requests[i].upstreamCalls = 0
                  ELSE /\ AfterChecks(requests[i], UpstreamPolicies(requests[i].param))
                       /\ requests[i].upstreamCalls = 1 =>
                              requests[i].sent = requests[i].param

\* C16, the steps: a failing upstream call gives 500.
C16_UpstreamStep ==
    \A i \in DOMAIN requests :
        (/\ requests[i].endpoint = "policies"
         /\ requests[i].pc = "upstream"
         /\ requests'[i].pc = "done"
         /\ UpstreamResponse(i, FALSE)) => requests'[i].status = 500

\* C16: the status mapping of GET /api/policies.
C16_PoliciesStatus == []C16_StatusOrder /\ [][C16_UpstreamStep]_vars

\* Profile mode answered 400 for a missing compartmentId, 404 for a name the
\* file does not hold and 500 for a failed upstream call.
C16_Witness ==
    /\ ~mode
    /\ \E i, j, k \in DOMAIN requests :
          /\ requests[i].endpoint = "policies"
          /\ requests[i].profile = Dev /\ requests[i].param = <<>>
          /\ requests[i].status = 400
          /\ requests[j].endpoint = "policies"
          /\ requests[j].profile # <<>> /\ requests[j].param # <<>>
          /\ requests[j].status = 404
          /\ requests[k].endpoint = "policies"
          /\ requests[k].status = 500 /\ requests[k].upstreamCalls = 1

\* The tenancy field of the profile's section in the configuration file.
TenancyLines(profile) ==
    {i \in FieldLinesOf(profile) : KeyOf(FileLines[i]) = TenancyKey}

TenancyOf(profile) ==
    IF TenancyLines(profile) = {} THEN <<>>
    ELSE ValOf(FileLines[CHOOSE i \in TenancyLines(profile) :
                             \A j \in TenancyLines(profile) : j <= i])

\* The id every compartments request sent upstream: the parent parameter
\* when it is non-empty, otherwise the tenancy field of the profile or the
\* value of getInstanceTenancyOcid.
C17_SentId ==
    \A i \in DOMAIN requests :
        (requests[i].endpoint = "compartments" /\ requests[i].upstreamCalls > 0) =>
            /\ requests[i].upstreamCalls = 1
            /\ requests[i].param # <<>> => requests[i].sent = requests[i].param
            /\ (requests[i].param = <<>> /\ ~mode) =>
                  requests[i].sent = TenancyOf(requests[i].profile)
            /\ (requests[i].param = <<>> /\ mode) =>
                  /\ requests[i].sent = MetadataCompartmentId
                  /\ requests[i].sent = requests[i].tenancyId
                  /\ requests[i].cacheAtStart # <<>> =>
                        requests[i].sent = requests[i].cacheAtStart

\* C17: the grouping id GET /api/compartments sends upstream is the parent
\* parameter when it is present and non-empty, and otherwise the resolved
\* root: the profile's tenancy field in profile mode, the value of
\* getInstanceTenancyOcid in instance-principal mode.
C17_UpstreamGroupingId == []C17_SentId

\* Instance-principal mode sent the resolved root for a request without
\* parent, once after a metadata request and once from the cache, and the
\* parent for a request with one.
C17_Witness ==
    /\ mode
    /\ \E i, j, k \in DOMAIN requests :
          /\ requests[i].endpoint = "compartments"
          /\ requests[i].param = <<>> /\ requests[i].metaCalls = 1
          /\ requests[i].sent = MetadataCompartmentId
          /\ requests[j].endpoint = "compartments"
          /\ requests[j].param = <<>> /\ requests[j].metaCalls = 0
          /\ requests[j].sent = MetadataCompartmentId
          /\ requests[k].endpoint = "compartments"
          /\ requests[k].param = Y /\ requests[k].sent = Y

-----------------------------------------------------------------------------
(* No retries                                                              *)

\* The request the server runs for the fetch f when it ends as `outcome`.
RunFor(f, outcome) ==
    ServerRun(mode, configFile, cache,
              IF f.kind = "children" THEN "compartments" ELSE "policies",
              f.profile, f.id,
              IF outcome = "meta_fail" THEN "error" ELSE "ok",
              outcome # "upstream_fail").req

\* The request r, run to its answer under `outcome`, made at most one
\* metadata request and one upstream call, answered once, and answered 500
\* when the call it made failed.
OneCall(r, outcome) ==
    /\ r.upstreamCalls <= 1
    /\ r.metaCalls <= 1
    /\ r.answers = 1
    /\ r.pc = "done"
    /\ (outcome = "upstream_fail" /\ r.upstreamCalls = 1) => r.status = 500
    /\ (outcome = "meta_fail" /\ r.metaCalls = 1)
          => r.status = 500 /\ r.upstreamCalls = 0

\* C18, the server: the request of a fetch makes at most one metadata
\* request and at most one upstream call, answers once, and answers 500 when
\* the call it made fails.
C18_ServerOnce ==
    \A f \in BagToSet(client.inflight) :
        f.kind # "profiles" =>
            \A o \in {"ok", "meta_fail", "upstream_fail"} : OneCall(RunFor(f, o), o)

\* The step is the failure of the fetch f, of any kind.
FailedFetch(f) ==
    \E o \in Outcomes : FailsWith(f, Answer(mode, configFile, cache, f, o))

\* C18, the client: a failed fetch leaves flight and issues no request.
C18_ClientStep ==
    \A f \in BagToSet(client.inflight) :
        FailedFetch(f) => client'.inflight = client.inflight (-) One(f)

\* C18: no retries at any layer.
C18_NoRetries == []C18_ServerOnce /\ [][C18_ClientStep]_vars

\* The policies-fetch of the root failed at the upstream call and nothing is
\* in flight.
C18_Witness ==
    /\ client.tab = "main"
    /\ client.selectedProfile = Dev
    /\ client.profileRootId = T
    /\ client.error = FailMessage("policies")
    /\ client.policies = <<>>
    /\ client.inflight = EmptyBag

-----------------------------------------------------------------------------
(* The profile list and the root cache                                     *)

\* C19: in instance-principal mode GET /api/profiles returns exactly the
\* one-element list of the sentinel name, whatever the configuration file
\* holds; in profile mode it returns listOciProfiles().
C19_ProfilesByMode ==
    lastCall.fn = "GET /api/profiles" =>
        /\ lastCall.result.status = 200
        /\ mode => lastCall.result.profiles = <<INSTANCE_PRINCIPAL_PROFILE_NAME>>
        /\ ~mode => lastCall.result.profiles = listOciProfiles(configFile)

\* Instance-principal mode answered with the sentinel alone over a readable
\* file that holds a section of another name.
C19_Witness ==
    /\ mode
    /\ lastCall.fn = "GET /api/profiles"
    /\ configFile.readable
    /\ HeaderNames(FileLines) # <<>>
    /\ listOciProfiles(configFile) # <<>>
    /\ lastCall.result.profiles = <<INSTANCE_PRINCIPAL_PROFILE_NAME>>

\* The requests whose metadata request ended with a value: each of them
\* assigned _instanceMetaTenancyOcid.
CacheWriters ==
    {i \in DOMAIN requests :
        requests[i].metaCalls = 1 /\ requests[i].tenancyId # <<>>}

\* C20 as claimed: the root cache is set at most once, for every
\* interleaving of concurrent getRootId calls.
C20_SetOnceAsClaimed == Cardinality(CacheWriters) <= 1

\* C20 amended, the states: a call that starts with a cached value assigns
\* nothing; the cache holds the value of the metadata endpoint as soon as one
\* request has ended with it.
C20_CacheStates ==
    /\ \A i \in DOMAIN requests :
          requests[i].cacheAtStart # <<>> => i \notin CacheWriters
    /\ CacheWriters # {} <=> cache # <<>>
    /\ cache # <<>> => cache = MetadataCompartmentId

\* C20 amended, the steps: once set, the cache is neither cleared nor given
\* another value, whatever ends later.
C20_CacheStep == cache # <<>> => cache' = cache

\* C20 amended: the root cache, once set, keeps its value for the lifetime of
\* the process; it is assigned by every metadata request that ends with a
\* value, so more than once when concurrent first calls each complete one.
C20_CacheStable == []C20_CacheStates /\ [][C20_CacheStep]_vars

\* Two concurrent first calls both completed their metadata request and a
\* third call was served from the cache.
C20_Witness ==
    /\ cache = MetadataCompartmentId
    /\ metaRequests = 2
    /\ \E i, j, k \in DOMAIN requests :
          /\ i < j /\ j < k
          /\ i \in CacheWriters /\ j \in CacheWriters
          /\ requests[k].cacheAtStart = cache
          /\ requests[k].metaCalls = 0
          /\ requests[k].tenancyId = cache

\* C21, the step: a metadata request that ends in a network failure or a
\* malformed response resolves null (the handler answers 500 and calls
\* nothing upstream) and leaves the root cache as it was.
C21_FailedMetaStep ==
    \A i \in DOMAIN requests :
        (/\ requests[i].pc = "meta"
         /\ requests'[i].pc # "meta"
         /\ \E o \in {"malformed", "error"} : MetaResponse(i, o)) =>
            /\ cache' = cache
            /\ requests'[i].tenancyId = <<>>
            /\ requests'[i].status = 500
            /\ requests'[i].upstreamCalls = 0

\* C21: a failing getRootId call returns null and leaves the cache unchanged.
C21_FailureLeavesCache == [][C21_FailedMetaStep]_vars

\* Of two racing first calls one cached the value and the other failed: the
\* value is still cached.
C21_Witness ==
    /\ cache = MetadataCompartmentId
    /\ \E i, j \in DOMAIN requests :
          /\ i < j
          /\ j \in CacheWriters
          /\ requests[i].metaCalls = 1 /\ requests[i].cacheAtStart = <<>>
          /\ requests[i].status = 500 /\ requests[i].tenancyId = <<>>
          /\ requests[j].cacheAtStart = <<>>

\* C22, the states: what a call read from the cache when it started is what
\* the cache holds now.
C22_ReadsCurrent ==
    \A i \in DOMAIN requests :
        requests[i].cacheAtStart # <<>> =>
            cache # <<>> /\ requests[i].cacheAtStart = cache

\* C22, the steps: a cache that holds a value holds the same value after
\* every step, the ends of racing first calls included.
C22_KeepsValue ==
    cache # <<>> => (cache' # <<>> /\ cache' = cache /\ cache' = MetadataCompartmentId)

\* C22: the root cache is never invalidated and, every successful metadata
\* response carrying the same id, never changes its value.
C22_NeverInvalidated == []C22_ReadsCurrent /\ [][C22_KeepsValue]_vars

\* A first call cached the value, a call that raced it ended malformed, and
\* a later call was served the value from the cache.
C22_Witness ==
    /\ cache = MetadataCompartmentId
    /\ \E i, j, k \in DOMAIN requests :
          /\ i < j /\ j < k
          /\ i \in CacheWriters
          /\ requests[j].cacheAtStart = <<>> /\ requests[j].metaCalls = 1
          /\ requests[j].status = 500
          /\ requests[k].cacheAtStart = cache /\ requests[k].metaCalls = 0
          /\ requests[k].status = 200

\* What the server answers, when nothing fails, to a fetch of the selected
\* profile for grouping id: the list the client would display for it.
ResultsFor(kind, id) ==
    LET a == Answer(mode, configFile, cache,
                    Fetch(kind, client.selectedProfile, id, FALSE, TRUE), "ok")
    IN  IF a.data.kind = "array" THEN a.data.items ELSE <<>>

\* The browser is shown with a profile selected and no fetch in flight.
AtRest ==
    /\ client.tab = "main"
    /\ client.selectedProfile # <<>>
    /\ client.inflight = EmptyBag

\* C23: whenever no fetch is in flight, the displayed compartments list and
\* policies list are the results for the effective current grouping id of
\* the selected profile, or empty (that grouping's fetch failed), for every
\* interleaving of navigation events and fetch completions.
C23_DisplayedListsCurrent ==
    AtRest =>
        LET id == EffectiveId(client.compartmentStack, client.profileRootId)
        IN  /\ client.compartments \in {<<>>, ResultsFor("children", id)}
            /\ client.policies \in {<<>>, ResultsFor("policies", id)}

RootOf(profile) == IF mode THEN MetadataCompartmentId ELSE TenancyOf(profile)

IsChildOf(entry, parent) ==
    \E c \in Range(UpstreamCompartments(parent)) : c.id = entry.id

\* C25: in every reachable state the stack is a path of the grouping tree
\* below the root: its first entry is a child of the selected profile's root
\* and each later entry is a child of the entry before it.
C25_StackIsPath ==
    \A n \in DOMAIN client.compartmentStack :
        IsChildOf(client.compartmentStack[n],
                  IF n = 1 THEN RootOf(client.selectedProfile)
                  ELSE client.compartmentStack[n - 1].id)

\* C26: in every reachable state resolvedRootId is empty or the root id of
\* the currently selected profile, also after a children-fetch issued for a
\* previously selected profile completed following a change of profile or a
\* deselection.
C26_RootOfSelectedProfile ==
    client.profileRootId # <<>> =>
        /\ client.selectedProfile # <<>>
        /\ client.profileRootId = RootOf(client.selectedProfile)

\* C27, one step: a step that opens the detail view or returns from it
\* leaves selectedProfile, resolvedRootId and the stack as they were, and a
\* step that changes the stack is a drill-down, a back or a profile change.
C27_ViewStep ==
    /\ client'.tab # client.tab =>
          /\ client'.selectedProfile = client.selectedProfile
          /\ client'.profileRootId = client.profileRootId
          /\ client'.compartmentStack = client.compartmentStack
    /\ client'.compartmentStack # client.compartmentStack =>
          \/ \E c \in Range(client.compartments) : Drilldown(c)
          \/ Back
          \/ \E p \in Range(client.profiles) \cup {<<>>} : SelectProfile(p)

\* C27: the lifted session state persists across view navigation, and the
\* stack is mutated only by drill-down, back and profile change.
C27_LiftedStatePersists == [][C27_ViewStep]_vars

\* A fetch of the given kind issued by the mounted browser is in flight.
LiveInFlight(kind) ==
    \E f \in BagToSet(client.inflight) : f.kind = kind /\ f.live

\* C28 as claimed: in every state of the browser with a children-fetch or a
\* policies-fetch in flight, a profile change, a back on a non-empty stack
\* and a drill-down into each grouping of the list can be issued.
C28_NothingBlockedAsClaimed ==
    (client.tab = "main" /\ Busy(client)) =>
        /\ ProfileSelectShown(client)
        /\ client.compartmentStack # <<>> => BackShown(client)
        /\ \A c \in Range(client.compartments) : RowShown(client, c)

\* C28: with a children-fetch or a policies-fetch in flight, a back on a
\* non-empty stack can always be issued; a profile change can be issued
\* unless the profile list itself is being fetched; a drill-down can be
\* issued when no children-fetch of the browser is in flight (a
\* policies-fetch does not block it), and cannot while the compartments are
\* loading.
C28_NavigationWhileBusy ==
    (client.tab = "main" /\ Busy(client)) =>
        /\ client.compartmentStack # <<>> => BackShown(client)
        /\ ~LiveInFlight("profiles") => ProfileSelectShown(client)
        /\ (client.selectedProfile # <<>> /\ ~LiveInFlight("children")) =>
              \A c \in Range(client.compartments) : RowShown(client, c)
        /\ client.loadingCompartments =>
              /\ LiveInFlight("children")
              /\ \A c \in Range(client.compartments) : ~RowShown(client, c)

\* Right after a drill-down: the children are loading, the list still holds
\* the rows of the parent, and the stack is not empty.
C28_Witness ==
    /\ client.tab = "main"
    /\ LiveInFlight("children") /\ LiveInFlight("policies")
    /\ client.loadingCompartments
    /\ client.compartments # <<>>
    /\ client.compartmentStack # <<>>
    /\ BackShown(client)
    /\ ProfileSelectShown(client)

\* The bodies of a failed fetch as the callbacks see them: the rejection,
\* JSON null, an object without an error field, and an error object (the
\* message is the one the step shows, when it shows one).
FailureBodies ==
    {Body("reject", <<>>, ""), Body("null", <<>>, ""), Body("object", <<>>, ""),
     Body("error", <<>>, client'.error)}

\* The message the callbacks of fetch f set for a failure body.
MessageFor(f, d) ==
    IF d.kind = "error" /\ d.error # "" THEN d.error
    ELSE IF d.kind \in {"error", "object"} THEN "Unexpected response"
    ELSE IF f.kind = "children" THEN "Failed to load compartments."
    ELSE "Failed to load policies."

\* The loading flag of fetch f.
LoadingOf(s, f) ==
    IF f.kind = "children" THEN s.loadingCompartments ELSE s.loadingPolicies

\* The step ends the children- or policies-fetch f with failure body d.
EndsWith(f, d) ==
    /\ f.kind \in {"children", "policies"}
    /\ CopiesIn(f, client'.inflight) < CopiesIn(f, client.inflight)
    /\ client' = fetchDone(client, f, d)

\* C29 as claimed: a network failure, an error object and a non-array body
\* (null included) each end in the error message being set and the loading
\* flag of the fetch being cleared.
C29_OutcomeStepAsClaimed ==
    \A f \in BagToSet(client.inflight) : \A d \in FailureBodies :
        EndsWith(f, d) =>
            /\ client'.error # ""
            /\ ~LoadingOf(client', f)

C29_EveryOutcomeAsClaimed == [][C29_OutcomeStepAsClaimed]_vars

\* C29 amended: for a fetch of the mounted browser each failure ends in its
\* message (the error text of an error object, "Unexpected response" for
\* another object, the catch message for a rejection and for null, whose
\* TypeError the .catch handles) and in the loading flag being cleared; for
\* a fetch issued before the detail view was opened the callbacks change
\* neither the message nor a loading flag.
C29_OutcomeStep ==
    \A f \in BagToSet(client.inflight) : \A d \in FailureBodies :
        EndsWith(f, d) =>
            /\ f.live =>
                  /\ client'.error = MessageFor(f, d)
                  /\ client'.error # ""
                  /\ ~LoadingOf(client', f)
            /\ ~f.live =>
                  /\ client'.error = client.error
                  /\ client'.loadingCompartments = client.loadingCompartments
                  /\ client'.loadingPolicies = client.loadingPolicies

C29_OutcomesHandled == [][C29_OutcomeStep]_vars

\* The children-fetch of the drill-down into Sales answered an object that
\* is neither an array nor an error: the message is shown, nothing loads.
C29_Witness ==
    /\ client.tab = "main"
    /\ client.compartmentStack = <<EntryY>>
    /\ client.error = "Unexpected response"
    /\ client.compartments = <<>>
    /\ ~client.loadingCompartments
    /\ ~LiveInFlight("children")

\* The non-empty lists a children-fetch can succeed with.
ChildLists == {UpstreamCompartments(i) : i \in {T, U, Y, W, Z}} \ {<<>>}

\* The step took fetch f out of flight.
Ended(f) == CopiesIn(f, client'.inflight) < CopiesIn(f, client.inflight)

\* The step wrote resolvedRootId as the callback of a successful
\* children-fetch f that asks for the root hint does.
WroteHint(f) ==
    /\ f.kind = "children"
    /\ f.setRootId
    /\ \E items \in ChildLists :
          /\ client' = fetchDone(client, f, Body("array", items, ""))
          /\ client'.profileRootId = items[1].compartmentId

\* The step put a children-fetch that asks for the root hint in flight.
IssuesRootFetch ==
    \E g \in BagToSet(client'.inflight) :
        /\ g.kind = "children" /\ g.setRootId /\ g.live
        /\ CopiesIn(g, client'.inflight) > CopiesIn(g, client.inflight)

\* The frame of completions and events: a step that ends a fetch leaves the
\* stack, and leaves resolvedRootId unless the fetch is a successful
\* children-fetch that asks for the root hint; the end of a fetch of a
\* drill-down or a back (no hint asked) leaves both; a step that ends no
\* fetch changes resolvedRootId only by clearing it, with selectedProfile.
C30_Frame ==
    /\ \A f \in BagToSet(client.inflight) :
          Ended(f) =>
              /\ client'.compartmentStack = client.compartmentStack
              /\ client'.profileRootId # client.profileRootId => WroteHint(f)
              /\ ~f.setRootId => client'.profileRootId = client.profileRootId
    /\ (\A f \in BagToSet(client.inflight) : ~Ended(f)) =>
          (client'.profileRootId # client.profileRootId =>
              /\ client'.profileRootId = <<>>
              /\ client'.selectedProfile # client.selectedProfile)

\* C30 as claimed: the frame above, the fetches that ask for the root hint
\* being issued by profile selections only.
C30_StepAsClaimed ==
    /\ C30_Frame
    /\ IssuesRootFetch => client'.selectedProfile # client.selectedProfile

C30_Step ==
    /\ C30_Frame
    /\ IssuesRootFetch =>
          \/ client'.selectedProfile # client.selectedProfile
          \/ client.tab = "policyDetail" /\ client'.tab = "main"

C31_FlagsTrackFetches ==
    client.tab = "main" =>
        /\ client.loadingCompartments <=> LiveInFlight("children")
        /\ client.loadingPolicies <=> LiveInFlight("policies")

\* A compartments request with the sentinel profile under instance-principal
\* authentication.
SentinelCompartments(r) ==
    /\ mode
    /\ r.endpoint = "compartments"
    /\ r.profile = INSTANCE_PRINCIPAL_PROFILE_NAME

\* The request has the value of its getInstanceTenancyOcid() call: from the
\* cache it found set, or from the metadata request it made.
GotRootId(r) ==
    /\ r.tenancyId = MetadataCompartmentId
    /\ \/ r.metaCalls = 0 /\ r.cacheAtStart = r.tenancyId
       \/ r.metaCalls = 1 /\ r.cacheAtStart = <<>>

\* C32, the states: a sentinel compartments request that called upstream,
\* with a parent or without, had the root id first; one that still waits for
\* the root id has not called upstream; one that ended without a root id was
\* answered 500 and never called upstream.
C32_RootIdBeforeUpstream ==
    \A i \in DOMAIN requests :
        SentinelCompartments(requests[i]) =>
            /\ requests[i].upstreamCalls > 0 =>
                  /\ GotRootId(requests[i])
                  /\ requests[i].sent = IF requests[i].param # <<>>
                                        THEN requests[i].param
                                        ELSE requests[i].tenancyId
            /\ requests[i].pc = "meta" => requests[i].upstreamCalls = 0
            /\ (requests[i].pc = "done" /\ requests[i].tenancyId = <<>>) =>
                  /\ requests[i].status = 500
                  /\ requests[i].upstreamCalls = 0

\* C32, the steps: the upstream call of a sentinel compartments request is
\* made by the step that gives it the root id, and a step in which its
\* getRootId call returns null answers 500 without an upstream call.
C32_RootIdStep ==
    \A i \in DOMAIN requests :
        (SentinelCompartments(requests[i]) /\ requests[i].pc = "meta"
            /\ requests'[i] # requests[i]) =>
                \/ /\ requests'[i].pc = "upstream"
                   /\ GotRootId(requests'[i])
                \/ /\ requests'[i].pc = "done"
                   /\ requests'[i].status = 500
                   /\ requests'[i].tenancyId = <<>>
                   /\ requests'[i].upstreamCalls = 0

\* C32: in instance-principal mode every compartments request with the
\* sentinel profile calls getRootId before the upstream call, also when a
\* parent is supplied; when getRootId returns null the response is 500 and
\* the upstream service is not called.
C32_RootIdFirst == []C32_RootIdBeforeUpstream /\ [][C32_RootIdStep]_vars

\* Two requests with a parent: the metadata request of the first failed and
\* it was answered 500 without an upstream call; the second got the root id
\* and listed the parent.
C32_Witness ==
    /\ mode
    /\ \E i, j \in DOMAIN requests :
          /\ SentinelCompartments(requests[i]) /\ SentinelCompartments(requests[j])
          /\ requests[i].param = Y /\ requests[j].param = Y
          /\ requests[i].metaCalls = 1 /\ requests[i].status = 500
          /\ requests[i].upstreamCalls = 0 /\ requests[i].tenancyId = <<>>
          /\ requests[j].upstreamCalls = 1 /\ requests[j].sent = Y
          /\ requests[j].tenancyId = MetadataCompartmentId
          /\ requests[j].status = 200

\* The answer of GET /api/compartments?profile=name, up to its first await.
CompartmentsFor(name) ==
    CompartmentsHandler(mode, configFile, cache,
                        NewRequest("compartments", name, <<>>), TRUE)

\* C33, first half: every name returned by GET /api/profiles is accepted as
\* a profile by GET /api/compartments: it is answered neither 400 nor 404.
C33_ListedAccepted ==
    lastCall.fn = "GET /api/profiles" =>
        \A n \in Range(lastCall.result.profiles) :
            CompartmentsFor(n).status \notin {400, 404}

\* C33, the converse: loadProfile finds a profile only if its name is in
\* listProfiles().
C33_LoadedListed ==
    (lastCall.fn = "loadOciProfile" /\ ~lastCall.result.isNull) =>
        lastCall.arg \in Range(listOciProfiles(configFile))

\* C33: the names GET /api/profiles returns are accepted by
\* GET /api/compartments, and the profiles loadProfile finds are listed.
C33_ListedIffLoadable == C33_ListedAccepted /\ C33_LoadedListed

\* C34, the states: a request has been answered at most once, and exactly
\* once when its handler is done.
C34_AtMostOnce ==
    \A i \in DOMAIN requests :
        /\ requests[i].answers <= 1
        /\ requests[i].pc = "done" <=> requests[i].answers = 1

\* C34, the steps: an answered request is not touched again.
C34_AnsweredStep ==
    \A i \in DOMAIN requests :
        requests[i].answers = 1 => requests'[i] = requests[i]

\* C34: every /api/compartments and /api/policies request eventually
\* receives exactly one response, every metadata request and upstream call
\* it starts eventually ending; no request is answered twice.
C34_AnsweredExactlyOnce ==
    /\ []C34_AtMostOnce
    /\ [][C34_AnsweredStep]_vars
    /\ \A i \in 1..MaxRequests :
          (i \in DOMAIN requests) ~>
              (i \in DOMAIN requests /\ requests[i].answers = 1)

\* Every request that can arrive has been answered once, one of them after
\* waiting for its metadata request and then for its upstream call, one
\* without waiting at all.
C34_Witness ==
    /\ Len(requests) = MaxRequests
    /\ \A i \in DOMAIN requests : requests[i].answers = 1
    /\ \E i, j \in DOMAIN requests :
          /\ requests[i].metaCalls = 1 /\ requests[i].upstreamCalls = 1
          /\ requests[j].metaCalls = 0 /\ requests[j].upstreamCalls = 0

====
